---- MODULE Spec2Model ----
(***************************************************************************)
(* A model of the tool-invocation agent: the sandboxed file operations     *)
(* (file_system_mcp_server.py, mcp_client_windows_fix.py), the remote      *)
(* transport and its wrappers (mcp_client.py), the local tools             *)
(* (agent_tools.py) and the invocation loop                                *)
(* (enhanced_function_calling_agent.py).                                   *)
(*                                                                         *)
(* Text is a sequence of tokens: a token is one character of file content  *)
(* ("a", SP, LF, CR, XFF) or one fixed fragment of a message.  A path      *)
(* string is a record [abs, parts]; a location in the filesystem is the    *)
(* sequence of names from the root.                                        *)
(***************************************************************************)
EXTENDS Integers, Sequences, FiniteSets, TLC

VARIABLES
    platform,   \* platform.system(): selects the backing implementation
    base_directory, \* the base directory the agent's initialize_mcp is given
    fs,         \* the filesystem: location -> node
    written,    \* history: location -> content given to the last successful write
    last,       \* history: the last file operation and its ToolResult
    nOps,       \* number of file operations performed
    has_rag,    \* AgentTools.has_rag: the document-search source is configured
    mcp_enabled,\* EnhancedFunctionCallingAgent.mcp_enabled
    transport,  \* the wrapper, the integrated tools and the client behind it
    call,       \* history: the last call of the transport's life cycle
    nCalls,     \* number of life-cycle calls made
    pc,         \* chat_with_tools: "idle", "dispatch" or "done"
    messages,   \* chat_with_tools: the conversation
    tool_calls, \* chat_with_tools: the requests of the first response
    idx,        \* chat_with_tools: position of the for loop in tool_calls
    completions,\* history: the calls of the completion service
    responses,  \* history: the responses of the completion service
    dispatched, \* history: the calls of execute_tool
    answer,     \* what chat_with_tools returned
    escaped,    \* an exception left chat_with_tools
    use,        \* history: the last direct call of the agent's tool interface
    web         \* the web application: its flag and the runs of its threads

fsVars == <<platform, base_directory, fs, written, last, nOps>>
agentVars == <<has_rag, mcp_enabled, transport>>
lifeVars == <<call, nCalls>>
loopVars == <<pc, messages, tool_calls, idx, completions, responses, dispatched,
              answer, escaped>>
vars == <<platform, base_directory, fs, written, last, nOps, has_rag, mcp_enabled, transport,
          call, nCalls, pc, messages, tool_calls, idx, completions, responses,
          dispatched, answer, escaped, use, web>>

-----------------------------------------------------------------------------
(* Bounds *)

MaxOps == 2
MaxLifeCalls == 4
MaxToolCalls == 2

-----------------------------------------------------------------------------
(* Characters and text *)

SP == "SP"
LF == "LF"
CR == "CR"
XFF == "XFF"    \* a byte that is not valid UTF-8
EAcute == "U+00E9"  \* a character that UTF-8 encodes in two bytes

Whitespace == {SP, LF, CR}

\* str.strip(): leading and trailing whitespace removed.
RECURSIVE LStrip(_)
LStrip(s) ==
    IF s = <<>> THEN <<>>
    ELSE IF Head(s) \in Whitespace THEN LStrip(Tail(s)) ELSE s

RECURSIVE RStrip(_)
RStrip(s) ==
    IF s = <<>> THEN <<>>
    ELSE IF s[Len(s)] \in Whitespace THEN RStrip(SubSeq(s, 1, Len(s) - 1)) ELSE s

Strip(s) == RStrip(LStrip(s))

\* Text-mode read (newline=None): CR LF and a lone CR both become LF.
RECURSIVE UniversalNewlines(_)
UniversalNewlines(s) ==
    IF s = <<>> THEN <<>>
    ELSE IF Head(s) = CR
         THEN IF Len(s) >= 2 /\ s[2] = LF
              THEN <<LF>> \o UniversalNewlines(Tail(Tail(s)))
              ELSE <<LF>> \o UniversalNewlines(Tail(s))
         ELSE <<Head(s)>> \o UniversalNewlines(Tail(s))

\* os.linesep of the platform.
LineSep(plat) == IF plat = "Windows" THEN <<CR, LF>> ELSE <<LF>>

\* Text-mode write (newline=None): every LF becomes os.linesep.
RECURSIVE WriteNewlines(_, _)
WriteNewlines(plat, s) ==
    IF s = <<>> THEN <<>>
    ELSE (IF Head(s) = LF THEN LineSep(plat) ELSE <<Head(s)>>)
         \o WriteNewlines(plat, Tail(s))

\* st_size: the number of bytes of a stored text encoded as UTF-8.
RECURSIVE ByteCount(_)
ByteCount(s) ==
    IF s = <<>> THEN 0
    ELSE (IF Head(s) = EAcute THEN 2 ELSE 1) + ByteCount(Tail(s))

\* Decoding as UTF-8 fails on an invalid byte.
Decodable(bytes) == \A i \in 1..Len(bytes) : bytes[i] # XFF

-----------------------------------------------------------------------------
(* Paths *)

IsPrefix(p, q) == Len(p) <= Len(q) /\ SubSeq(q, 1, Len(p)) = p

Parent(loc) == IF loc = <<>> THEN <<>> ELSE SubSeq(loc, 1, Len(loc) - 1)

RelPath(parts) == [abs |-> FALSE, parts |-> parts]
AbsPath(parts) == [abs |-> TRUE, parts |-> parts]

\* The process's working directory and the base directory handed to
\* initialize_mcp / FS_MCP_BASE_DIR (every caller passes ".").
Cwd == <<"sb">>
BaseArg == RelPath(<<".">>)

\* The base directories initialize_mcp can be given: the working directory,
\* a directory below it, and a directory elsewhere.
BaseDirectories == { BaseArg, RelPath(<<"d">>), AbsPath(<<"out">>) }

\* The path strings the operations are called with.
PathStrings ==
    { RelPath(<<"f">>), RelPath(<<"d", "f">>), RelPath(<<".">>),
      RelPath(<<"bin">>), RelPath(<<"d", "..", "f">>),
      AbsPath(<<"sb", "f">>),
      RelPath(<<"..">>), RelPath(<<"..", "out", "f">>),
      RelPath(<<"lnk", "f">>), RelPath(<<"lnk", "g">>),
      AbsPath(<<"out", "f">>), AbsPath(<<"sbx">>),
      RelPath(<<"d", "..", "..", "out", "g">>) }

\* str(path) as text, for messages.
RECURSIVE JoinParts(_)
JoinParts(parts) ==
    IF parts = <<>> THEN <<>>
    ELSE IF Len(parts) = 1 THEN <<parts[1]>>
    ELSE <<parts[1], "/">> \o JoinParts(Tail(parts))

PathText(p) == (IF p.abs THEN <<"/">> ELSE <<>>) \o JoinParts(p.parts)

-----------------------------------------------------------------------------
(* Filesystem *)

Dir == [kind |-> "dir", content |-> <<>>, target |-> <<>>]
File(bytes) == [kind |-> "file", content |-> bytes, target |-> <<>>]
Link(target) == [kind |-> "link", content |-> <<>>, target |-> target]

\* The filesystem the program starts in: the base directory /sb holding an
\* undecodable file and a symbolic link to the directory /out outside it.
InitialFs ==
    (<<>> :> Dir) @@ (<<"sb">> :> Dir) @@ (<<"out">> :> Dir)
    @@ (<<"out", "f">> :> File(<<"s">>))
    @@ (<<"sb", "bin">> :> File(<<XFF>>))
    @@ (<<"sb", "lnk">> :> Link(<<"out">>))

\* The same filesystem with, in the base directory, a symbolic link to the
\* file /out/f outside it.
LinkedFs == InitialFs @@ (<<"sb", "ln">> :> Link(<<"out", "f">>))

\* The same filesystem with, in a directory below the base directory, a text
\* file of six lines.
SearchFs ==
    InitialFs @@ (<<"sb", "d">> :> Dir)
    @@ (<<"sb", "d", "fn">> :>
           File(<<"a", LF, SP, "A", LF, "s", LF, "a", LF, "a", SP, LF, "a">>))

Exists(f, loc) == loc \in DOMAIN f
IsDir(f, loc) == Exists(f, loc) /\ f[loc].kind = "dir"
IsFile(f, loc) == Exists(f, loc) /\ f[loc].kind = "file"

\* Path.resolve() / os.path.realpath, non-strict: "." dropped, ".." pops the
\* resolved prefix, a symbolic link is replaced by its (absolute) target,
\* a missing component is kept.
RECURSIVE ResolveFrom(_, _, _)
ResolveFrom(f, cur, parts) ==
    IF parts = <<>> THEN cur
    ELSE LET c == Head(parts)
             rest == Tail(parts)
         IN  IF c = "." THEN ResolveFrom(f, cur, rest)
             ELSE IF c = ".." THEN ResolveFrom(f, Parent(cur), rest)
             ELSE LET cand == Append(cur, c)
                  IN  IF Exists(f, cand) /\ f[cand].kind = "link"
                      THEN ResolveFrom(f, ResolveFrom(f, <<>>, f[cand].target), rest)
                      ELSE ResolveFrom(f, cand, rest)

\* Resolution of a path string by a process whose working directory is Cwd.
Resolve(f, p) == ResolveFrom(f, IF p.abs THEN <<>> ELSE Cwd, p.parts)

\* Path(a) / b: an absolute b replaces a.
JoinPath(a, b) ==
    IF b.abs THEN b ELSE [abs |-> a.abs, parts |-> a.parts \o b.parts]

-----------------------------------------------------------------------------
(* Fragments of the messages *)

AccessDenied == "Access denied: Path outside base directory"

Digits == <<"0", "1", "2", "3", "4", "5", "6", "7", "8", "9">>

\* str(n) for the small numbers that occur.
NumText(n) == IF n < Len(Digits) THEN Digits[n + 1] ELSE "many"

\* The names in the order sorted() gives them.
NameOrder == <<"bin", "d", "f", "fn", "g", "ln", "lnk", "out", "sb", "sbx">>

\* str.lower() on a character.
LowerChar(c) == IF c = "A" THEN "a" ELSE c

Lower(s) == [i \in 1..Len(s) |-> LowerChar(s[i])]

\* t in s
Contains(s, t) ==
    \E i \in 0..(Len(s) - Len(t)) : SubSeq(s, i + 1, i + Len(t)) = t

\* s.split('\n')
RECURSIVE SplitLines(_, _)
SplitLines(s, cur) ==
    IF s = <<>> THEN <<cur>>
    ELSE IF Head(s) = LF THEN <<cur>> \o SplitLines(Tail(s), <<>>)
    ELSE SplitLines(Tail(s), Append(cur, Head(s)))

RECURSIVE Flatten(_)
Flatten(ss) == IF ss = <<>> THEN <<>> ELSE Head(ss) \o Flatten(Tail(ss))

\* "\n".join(items)
RECURSIVE JoinLines(_)
JoinLines(items) ==
    IF items = <<>> THEN <<>>
    ELSE IF Len(items) = 1 THEN items[1]
    ELSE items[1] \o <<LF>> \o JoinLines(Tail(items))

\* The subsequence of s whose elements satisfy Test.
RECURSIVE SelectIdx(_, _, _)
SelectIdx(s, i, keep) ==
    IF i > Len(s) THEN <<>>
    ELSE (IF i \in keep THEN <<s[i]>> ELSE <<>>) \o SelectIdx(s, i + 1, keep)

-----------------------------------------------------------------------------
(* FileSystemMCPServer: the operations of the server process *)

\* FileSystemMCPServer.__init__: the base directory, resolved once.
ServerBase(f) == Resolve(f, base_directory)

\* A mutant of _safe_path: the containment check compares nothing.
SafePathUnchecked(f, p) ==
    [ok |-> TRUE,
     loc |-> Resolve(f, IF p.abs THEN p ELSE JoinPath(AbsPath(ServerBase(f)), p))]

\* _safe_path: ok = FALSE stands for the PermissionError.
SafePath(f, p) ==
    LET target == IF p.abs THEN p ELSE JoinPath(AbsPath(ServerBase(f)), p)
        resolved == Resolve(f, target)
    IN  [ok |-> IsPrefix(ServerBase(f), resolved), loc |-> resolved]

\* open(path, 'r', encoding='utf-8').read()
ReadText(f, loc) == UniversalNewlines(f[loc].content)

\* mkdir(parents=True, exist_ok=True) / os.makedirs(exist_ok=True) succeeds
\* iff every existing location on the way is a directory.
CanMakeDirs(f, loc) ==
    \A n \in 0..Len(loc) :
        Exists(f, SubSeq(loc, 1, n)) => IsDir(f, SubSeq(loc, 1, n))

MakeDirs(f, loc) ==
    LET new == { SubSeq(loc, 1, n) : n \in 0..Len(loc) } \ DOMAIN f
    IN  [q \in DOMAIN f \cup new |-> IF q \in DOMAIN f THEN f[q] ELSE Dir]

\* open(path, 'w', encoding='utf-8').write(content) on an existing parent.
PutFile(plat, f, loc, content) ==
    [q \in DOMAIN f \cup {loc} |->
        IF q = loc THEN File(WriteNewlines(plat, content)) ELSE f[q]]

\* _read_file
ServerReadFile(f, p) ==
    LET sp == SafePath(f, p)
    IN  IF ~sp.ok THEN <<"Error reading file: ", AccessDenied>>
        ELSE IF ~Exists(f, sp.loc) THEN <<"Error: File not found: ">> \o PathText(p)
        ELSE IF ~IsFile(f, sp.loc) THEN <<"Error: Path is not a file: ">> \o PathText(p)
        ELSE IF ~Decodable(f[sp.loc].content)
             THEN <<"Error: Unable to read file (binary or encoding issue): ">>
                  \o PathText(p)
        ELSE <<"File: ">> \o PathText(p) \o <<LF, "---", LF>> \o ReadText(f, sp.loc)

\* _write_file: the text returned and the filesystem left behind.
ServerWriteFile(plat, f, p, content) ==
    LET sp == SafePath(f, p)
    IN  IF ~sp.ok
        THEN [text |-> <<"Error writing file: ", AccessDenied>>, fs |-> f]
        ELSE IF ~CanMakeDirs(f, Parent(sp.loc))
        THEN [text |-> <<"Error writing file: ", "[Errno 20] Not a directory">>,
              fs |-> f]
        ELSE IF IsDir(f, sp.loc)
        THEN [text |-> <<"Error writing file: ", "[Errno 21] Is a directory">>,
              fs |-> MakeDirs(f, Parent(sp.loc))]
        ELSE [text |-> <<"Successfully wrote ", NumText(Len(content)),
                         " characters to: ">> \o PathText(p),
              fs |-> PutFile(plat, MakeDirs(f, Parent(sp.loc)), sp.loc, content)]

\* The entries of a directory, sorted by name.
Children(f, loc) ==
    LET here == { i \in 1..Len(NameOrder) : Exists(f, Append(loc, NameOrder[i])) }
    IN  SelectIdx(NameOrder, 1, here)

\* is_dir() / is_file() / stat() follow symbolic links.
Followed(f, loc) == ResolveFrom(f, <<>>, loc)

\* One line of a directory listing.
ListItem(f, loc, name) ==
    LET at == Followed(f, Append(loc, name))
    IN  IF IsDir(f, at) THEN <<"[dir] ", name>>
        ELSE IF IsFile(f, at)
             THEN <<"[file] ", name, " (", NumText(ByteCount(f[at].content)), " bytes)">>
        ELSE <<"[file] ", name>>

\* _list_directory
ServerListDirectory(f, p) ==
    LET sp == SafePath(f, p)
        names == Children(f, sp.loc)
        items == [i \in 1..Len(names) |-> ListItem(f, sp.loc, names[i])]
    IN  IF ~sp.ok THEN <<"Error listing directory: ", AccessDenied>>
        ELSE IF ~Exists(f, sp.loc)
             THEN <<"Error: Directory not found: ">> \o PathText(p)
        ELSE IF ~IsDir(f, sp.loc)
             THEN <<"Error: Path is not a directory: ">> \o PathText(p)
        ELSE <<"Directory: ">> \o PathText(p) \o <<LF, "---", LF>> \o JoinLines(items)
             \o (IF items = <<>> THEN <<"(empty directory)">> ELSE <<>>)

\* The non-empty suffixes of the file names that occur.
NameSuffixes(name) ==
    CASE name = "bin" -> {"bin", "in", "n"}
      [] name = "fn" -> {"fn", "n"}
      [] name = "ln" -> {"ln", "n"}
      [] name = "lnk" -> {"lnk", "nk", "k"}
      [] OTHER -> {name}

\* str.endswith on a file name.
EndsWith(name, ext) == ext = "" \/ ext \in NameSuffixes(name)

\* rglob("*") / os.walk: every location below loc, directories reached through
\* a symbolic link excluded (neither walk descends into one).
RECURSIVE Walk(_, _, _)
Walk(f, loc, fuel) ==
    LET names == Children(f, loc)
        sub(i) == LET q == Append(loc, names[i])
                  IN  <<q>> \o (IF IsDir(f, q) /\ fuel > 0
                               THEN Walk(f, q, fuel - 1) ELSE <<>>)
    IN  Flatten([i \in 1..Len(names) |-> sub(i)])

\* The 1-based numbers of the lines of content that hold the term.
MatchingLines(content, term) ==
    LET lines == SplitLines(content, <<>>)
    IN  SelectIdx([i \in 1..Len(lines) |-> i], 1,
                  { i \in 1..Len(lines) : Contains(Lower(lines[i]), Lower(term)) })

\* A mutant of the report of one file: every matching line is shown.
FileReportUncapped(rel, content, term) ==
    LET lines == SplitLines(content, <<>>)
        hits == MatchingLines(content, term)
        line(i) == <<"  Line ", NumText(hits[i]), ": ">> \o Strip(lines[hits[i]])
    IN  <<(<<"[file] ">> \o JoinParts(rel) \o <<":">>)>>
        \o [i \in 1..Len(hits) |-> line(i)]
        \o << <<>> >>

\* The report of one file: its relative path, the first 3 matching lines, the
\* count of the others, an empty line.
FileReport(rel, content, term) ==
    LET lines == SplitLines(content, <<>>)
        hits == MatchingLines(content, term)
        shown == SubSeq(hits, 1, IF Len(hits) > 3 THEN 3 ELSE Len(hits))
        line(i) == <<"  Line ", NumText(shown[i]), ": ">> \o Strip(lines[shown[i]])
    IN  <<(<<"[file] ">> \o JoinParts(rel) \o <<":">>)>>
        \o [i \in 1..Len(shown) |-> line(i)]
        \o (IF Len(hits) > 3
            THEN << <<"  ... and ", NumText(Len(hits) - 3), " more matches">> >>
            ELSE <<>>)
        \o << <<>> >>

\* The reports of the files a search visits, in the order of the walk.
SearchReports(f, root, term, ext) ==
    LET locs == Walk(f, root, Cardinality(DOMAIN f))
        visit(q) ==
            LET at == Followed(f, q)
            IN  IF ~IsFile(f, at) \/ ~EndsWith(q[Len(q)], ext) THEN <<>>
                ELSE IF ~Decodable(f[at].content) THEN <<>>
                ELSE IF ~Contains(Lower(ReadText(f, at)), Lower(term)) THEN <<>>
                ELSE FileReport(SubSeq(q, Len(root) + 1, Len(q)), ReadText(f, at), term)
    IN  Flatten([i \in 1..Len(locs) |-> visit(locs[i])])

\* _search_files
ServerSearchFiles(f, term, p, ext) ==
    LET sp == SafePath(f, p)
        matches == SearchReports(f, sp.loc, term, ext)
    IN  IF ~sp.ok THEN <<"Error searching files: ", AccessDenied>>
        ELSE IF ~Exists(f, sp.loc) \/ ~IsDir(f, sp.loc)
             THEN <<"Error: Invalid directory: ">> \o PathText(p)
        ELSE IF matches # <<>>
             THEN <<"Search results for '">> \o term \o <<"' in ">> \o PathText(p)
                  \o <<":", LF, "---", LF>> \o JoinLines(matches)
        ELSE <<"No matches found for '">> \o term \o <<"' in ">> \o PathText(p)

\* len(f.readlines())
CountLines(text) ==
    LET lines == SplitLines(text, <<>>)
    IN  IF lines[Len(lines)] = <<>> THEN Len(lines) - 1 ELSE Len(lines)

\* The lines of file information both implementations give.
InfoLines(f, loc, p) ==
    << <<"Path: ">> \o PathText(p),
       <<"Type: ", IF IsDir(f, loc) THEN "Directory" ELSE "File">>,
       <<"Size: ", IF IsDir(f, loc) THEN "dirsize" ELSE NumText(ByteCount(f[loc].content)),
         " bytes">>,
       <<"Last modified: ", "mtime">> >>

InfoTail(f, loc) ==
    IF ~IsFile(f, loc) THEN <<>>
    ELSE IF Decodable(f[loc].content)
         THEN << <<"Lines: ", NumText(CountLines(ReadText(f, loc)))>> >>
    ELSE << <<"Type: Binary file">> >>

\* _file_info
ServerFileInfo(f, p) ==
    LET sp == SafePath(f, p)
    IN  IF ~sp.ok THEN <<"Error getting file info: ", AccessDenied>>
        ELSE IF ~Exists(f, sp.loc) THEN <<"Error: Path not found: ">> \o PathText(p)
        ELSE <<"File Information:", LF, "---", LF>>
             \o JoinLines(InfoLines(f, sp.loc, p)
                          \o << <<"Permissions: ", "mode">> >>
                          \o InfoTail(f, sp.loc))

-----------------------------------------------------------------------------
(* Tool names, arguments and results *)

\* A tool name is a sequence of fragments: "mcp_read_file" is <<"mcp_", "read_file">>.
McpName(op) == <<"mcp_", op>>

FileOps == {"read_file", "write_file", "list_directory", "search_files", "file_info"}

StartsWithMcp(name) == name # <<>> /\ Head(name) = "mcp_"

\* tool_name.replace("mcp_", ""): every occurrence goes.
RECURSIVE RemoveMcp(_)
RemoveMcp(name) ==
    IF name = <<>> THEN <<>>
    ELSE (IF Head(name) = "mcp_" THEN <<>> ELSE <<Head(name)>>) \o RemoveMcp(Tail(name))

\* An argument mapping: the keys present, and the values of the keys that
\* can occur (file_path, path and directory_path share one value).
MakeArgs(keys, path, content, term) ==
    [keys |-> keys, path |-> path, content |-> content, term |-> term, ext |-> ""]

NoArgs == MakeArgs({}, RelPath(<<".">>), <<>>, <<>>)

\* A ToolResult: the dictionary a tool returns.
Succeeded(text) == [success |-> TRUE, result |-> text, error |-> <<>>]
Failed(text) == [success |-> FALSE, result |-> <<>>, error |-> text]

\* str(KeyError(key))
KeyErrorText(key) == <<"'", key, "'">>

\* handle_call_tool: the server's dispatch of one call; any exception becomes text.
HandleCallTool(plat, f, name, args) ==
    LET missing(key) == [text |-> <<"Error executing ", name, ": ">> \o KeyErrorText(key),
                         fs |-> f]
        dir == IF "directory_path" \in args.keys THEN args.path ELSE RelPath(<<".">>)
        ext == IF "file_extension" \in args.keys THEN args.ext ELSE ""
    IN  IF name = "read_file"
        THEN IF "file_path" \notin args.keys THEN missing("file_path")
             ELSE [text |-> ServerReadFile(f, args.path), fs |-> f]
        ELSE IF name = "write_file"
        THEN IF "file_path" \notin args.keys THEN missing("file_path")
             ELSE IF "content" \notin args.keys THEN missing("content")
             ELSE ServerWriteFile(plat, f, args.path, args.content)
        ELSE IF name = "list_directory"
        THEN [text |-> ServerListDirectory(f, dir), fs |-> f]
        ELSE IF name = "search_files"
        THEN IF "search_term" \notin args.keys THEN missing("search_term")
             ELSE [text |-> ServerSearchFiles(f, args.term, dir, ext), fs |-> f]
        ELSE IF name = "file_info"
        THEN IF "path" \notin args.keys THEN missing("path")
             ELSE [text |-> ServerFileInfo(f, args.path), fs |-> f]
        ELSE [text |-> <<"Error executing ", name, ": ", "Unknown tool: ", name>>,
              fs |-> f]

\* MCPClient.execute_mcp_tool, lines 108-119: the text fragments of the
\* response, each followed by a newline, stripped; always a success.
ClientWrap(text) == Succeeded(Strip(text \o <<LF>>))

-----------------------------------------------------------------------------
(* WindowsMCPClient: the same operations in the agent's own process *)

\* _safe_path(path): base_directory is "." at every call.
DirectSafePath(f, p) ==
    LET base == RelPath(<<".">>)
        target == IF p.abs THEN p ELSE JoinPath(base, p)
        resolved == Resolve(f, target)
    IN  [ok |-> IsPrefix(Resolve(f, base), resolved), loc |-> resolved]

\* _read_file_direct
DirectReadFile(f, p) ==
    LET sp == DirectSafePath(f, p)
    IN  IF ~sp.ok THEN Failed(<<"Error reading file: ", AccessDenied>>)
        ELSE IF ~Exists(f, sp.loc) THEN Failed(<<"File not found: ">> \o PathText(p))
        ELSE IF ~IsFile(f, sp.loc) THEN Failed(<<"Path is not a file: ">> \o PathText(p))
        ELSE IF ~Decodable(f[sp.loc].content)
             THEN Failed(<<"Unable to read file (binary or encoding issue): ">>
                         \o PathText(p))
        ELSE Succeeded(<<"File: ">> \o PathText(p) \o <<LF, "---", LF>>
                       \o ReadText(f, sp.loc))

\* _write_file_direct: the result and the filesystem left behind.
DirectWriteFile(plat, f, p, content) ==
    LET sp == DirectSafePath(f, p)
    IN  IF ~sp.ok
        THEN [res |-> Failed(<<"Error writing file: ", AccessDenied>>), fs |-> f]
        ELSE IF ~CanMakeDirs(f, Parent(sp.loc))
        THEN [res |-> Failed(<<"Error writing file: ", "[Errno 20] Not a directory">>),
              fs |-> f]
        ELSE IF IsDir(f, sp.loc)
        THEN [res |-> Failed(<<"Error writing file: ", "[Errno 21] Is a directory">>),
              fs |-> MakeDirs(f, Parent(sp.loc))]
        ELSE [res |-> Succeeded(<<"Successfully wrote ", NumText(Len(content)),
                                  " characters to: ">> \o PathText(p)),
              fs |-> PutFile(plat, MakeDirs(f, Parent(sp.loc)), sp.loc, content)]

\* _list_directory_direct
DirectListDirectory(f, p) ==
    LET sp == DirectSafePath(f, p)
        names == Children(f, sp.loc)
        items == [i \in 1..Len(names) |-> ListItem(f, sp.loc, names[i])]
    IN  IF ~sp.ok THEN Failed(<<"Error listing directory: ", AccessDenied>>)
        ELSE IF ~Exists(f, sp.loc)
             THEN Failed(<<"Directory not found: ">> \o PathText(p))
        ELSE IF ~IsDir(f, sp.loc)
             THEN Failed(<<"Path is not a directory: ">> \o PathText(p))
        ELSE Succeeded(<<"Directory: ">> \o PathText(p) \o <<LF, "---", LF>>
                       \o JoinLines(items)
                       \o (IF items = <<>> THEN <<"(empty directory)">> ELSE <<>>))

\* _search_files_direct
DirectSearchFiles(f, term, p, ext) ==
    LET sp == DirectSafePath(f, p)
        matches == SearchReports(f, sp.loc, term, ext)
    IN  IF ~sp.ok THEN Failed(<<"Error searching files: ", AccessDenied>>)
        ELSE IF ~Exists(f, sp.loc) \/ ~IsDir(f, sp.loc)
             THEN Failed(<<"Invalid directory: ">> \o PathText(p))
        ELSE IF matches # <<>>
             THEN Succeeded(<<"Search results for '">> \o term \o <<"' in ">>
                            \o PathText(p) \o <<":", LF, "---", LF>> \o JoinLines(matches))
        ELSE Succeeded(<<"No matches found for '">> \o term \o <<"' in ">>
                       \o PathText(p))

\* _file_info_direct
DirectFileInfo(f, p) ==
    LET sp == DirectSafePath(f, p)
    IN  IF ~sp.ok THEN Failed(<<"Error getting file info: ", AccessDenied>>)
        ELSE IF ~Exists(f, sp.loc) THEN Failed(<<"Path not found: ">> \o PathText(p))
        ELSE Succeeded(<<"File Information:", LF, "---", LF>>
                       \o JoinLines(InfoLines(f, sp.loc, p) \o InfoTail(f, sp.loc)))

\* WindowsMCPClient.execute_mcp_tool: the result and the filesystem left behind.
DirectExecuteMcpTool(plat, f, tool_name, args) ==
    LET operation == RemoveMcp(tool_name)
        missing(key) == [res |-> Failed(<<"Error executing ">> \o tool_name \o <<": ">>
                                        \o KeyErrorText(key)),
                         fs |-> f]
        dir == IF "directory_path" \in args.keys THEN args.path ELSE RelPath(<<".">>)
        ext == IF "file_extension" \in args.keys THEN args.ext ELSE ""
    IN  IF operation = <<"read_file">>
        THEN IF "file_path" \notin args.keys THEN missing("file_path")
             ELSE [res |-> DirectReadFile(f, args.path), fs |-> f]
        ELSE IF operation = <<"write_file">>
        THEN IF "file_path" \notin args.keys THEN missing("file_path")
             ELSE IF "content" \notin args.keys THEN missing("content")
             ELSE DirectWriteFile(plat, f, args.path, args.content)
        ELSE IF operation = <<"list_directory">>
        THEN [res |-> DirectListDirectory(f, dir), fs |-> f]
        ELSE IF operation = <<"search_files">>
        THEN IF "search_term" \notin args.keys THEN missing("search_term")
             ELSE [res |-> DirectSearchFiles(f, args.term, dir, ext), fs |-> f]
        ELSE IF operation = <<"file_info">>
        THEN IF "path" \notin args.keys THEN missing("path")
             ELSE [res |-> DirectFileInfo(f, args.path), fs |-> f]
        ELSE [res |-> Failed(<<"Unknown MCP operation: ">> \o operation), fs |-> f]

-----------------------------------------------------------------------------
(* The remote transport: MCPClient, MCPIntegratedTools, MCPToolsWrapper,     *)
(* and their Windows counterparts                                           *)

McpToolNames == { McpName(op) : op \in FileOps }

\* The state behind a freshly constructed wrapper.  On Windows the wrapper
\* holds its WindowsMCPIntegratedTools from construction on and has no event
\* loop, connection or subprocess.
NewTransport(plat) ==
    [mcp_tools |-> plat = "Windows",  \* wrapper.mcp_tools is not None
     loop |-> "None",                 \* wrapper._loop: None, open or closed
     mcp_connected |-> FALSE,         \* MCPIntegratedTools.mcp_connected
     connected_servers |-> {},        \* MCPClient.connected_servers
     available_tools |-> {},          \* MCPClient.available_tools
     session |-> "none",              \* the client session: none, open or closed
     process |-> "none",              \* the recorded subprocess: none, running, terminated
     orphan_procs |-> 0,              \* running subprocesses nothing refers to
     orphan_loops |-> 0]              \* open event loops nothing refers to

\* What the world outside the repository decides during a connect: whether
\* the subprocess starts, whether the session comes up, and whether the
\* session survives the exit of the "async with" block it was opened in.
ConnectOutcomes == {"spawn_fails", "session_fails", "open", "closed"}

\* MCPClient.connect_to_filesystem_server on a new client: the fields it
\* leaves and the value it returns.
ConnectToFilesystemServer(outcome) ==
    IF outcome = "spawn_fails"
    THEN [ret |-> FALSE, connected_servers |-> {}, available_tools |-> {},
          session |-> "none", process |-> "none", orphan |-> 0]
    ELSE IF outcome = "session_fails"
    THEN [ret |-> FALSE, connected_servers |-> {}, available_tools |-> {},
          session |-> "none", process |-> "none", orphan |-> 1]
    ELSE [ret |-> TRUE, connected_servers |-> {"filesystem"},
          available_tools |-> McpToolNames,
          session |-> outcome, process |-> "running", orphan |-> 0]

\* What a re-initialisation drops without releasing it.
DroppedProcs(t) ==
    t.orphan_procs + (IF t.process = "running" THEN 1 ELSE 0)
DroppedLoops(t) ==
    t.orphan_loops + (IF t.loop = "open" THEN 1 ELSE 0)

\* MCPToolsWrapper.initialize (with MCPIntegratedTools.initialize_mcp) and
\* WindowsMCPToolsWrapper.initialize: the state left and the value returned.
WrapperInitialize(plat, t, outcome) ==
    IF plat = "Windows" THEN [t |-> t, ret |-> TRUE]
    ELSE LET c == ConnectToFilesystemServer(outcome)
         IN  [t |-> [mcp_tools |-> TRUE,
                     loop |-> "open",
                     mcp_connected |-> c.ret,
                     connected_servers |-> c.connected_servers,
                     available_tools |-> c.available_tools,
                     session |-> c.session,
                     process |-> c.process,
                     orphan_procs |-> DroppedProcs(t) + c.orphan,
                     orphan_loops |-> DroppedLoops(t)],
              ret |-> c.ret]

\* MCPClient.cleanup: every recorded subprocess is terminated and awaited,
\* both dictionaries are cleared.
ClientCleanup(t) ==
    [t EXCEPT !.process = IF "filesystem" \in t.connected_servers
                             /\ t.process = "running"
                          THEN "terminated" ELSE @,
              !.connected_servers = {},
              !.available_tools = {}]

\* MCPIntegratedTools.cleanup
IntegratedCleanup(t) == IF t.mcp_connected THEN ClientCleanup(t) ELSE t

\* MCPToolsWrapper.cleanup and WindowsMCPToolsWrapper.cleanup: the state left,
\* and whether the call raised.  run_until_complete on a closed event loop
\* raises RuntimeError before the coroutine runs.
WrapperCleanup(plat, t) ==
    IF plat = "Windows" THEN [t |-> t, raised |-> FALSE]
    ELSE IF t.mcp_tools /\ t.loop = "closed" THEN [t |-> t, raised |-> TRUE]
    ELSE LET u == IF t.mcp_tools /\ t.loop # "None" THEN IntegratedCleanup(t) ELSE t
         IN  [t |-> [u EXCEPT !.loop = IF @ = "None" THEN "None" ELSE "closed"],
              raised |-> FALSE]

-----------------------------------------------------------------------------
(* Dispatch: AgentTools, the wrappers and the agent's execute_tool *)

\* A call that raised instead of returning.
Raised(f) == [raised |-> TRUE, res |-> Failed(<<>>), fs |-> f]
Returned(res, f) == [raised |-> FALSE, res |-> res, fs |-> f]

\* Python's binding of **kwargs to a handler's parameters: a TypeError unless
\* every required parameter is given and every key is a parameter.
Binds(keys, required, accepted) == required \subseteq keys /\ keys \subseteq accepted

\* AgentTools.get_available_tools
RegularToolNames(rag) ==
    (IF rag THEN << <<"search_documents">> >> ELSE <<>>) \o << <<"search_web">> >>

\* AgentTools.execute_tool, with search_documents and search_web: outcome is
\* what the service behind the handler does (it answers, or the handler's own
\* try/except turns its failure into a failed result).
RegularExecuteTool(rag, f, name, args, outcome) ==
    IF name = <<"search_documents">>
    THEN IF ~Binds(args.keys, {"query"}, {"query", "num_results"}) THEN Raised(f)
         ELSE IF ~rag THEN Returned(Failed(<<"RAG source not available">>), f)
         ELSE IF outcome = "ok" THEN Returned(Succeeded(<<"results">>), f)
         ELSE Returned(Failed(<<"Error searching documents: ", "exc">>), f)
    ELSE IF name = <<"search_web">>
    THEN IF ~Binds(args.keys, {"query"}, {"query", "max_results"}) THEN Raised(f)
         ELSE IF outcome = "ok" THEN Returned(Succeeded(<<"results">>), f)
         ELSE Returned(Failed(<<"Error searching web: ", "exc">>), f)
    ELSE Returned(Failed(<<"Unknown tool: ">> \o name), f)

\* A mutant of execute_mcp_tool: a failure of the call goes unnoticed and the
\* result is built as if the server had answered.
ClientExecuteMcpToolNoExcept(plat, t, f, name, args, outcome) ==
    IF name \notin t.available_tools
    THEN Returned(Failed(<<"Unknown MCP tool: ">> \o name), f)
    ELSE Returned(ClientWrap(HandleCallTool(plat, f, name[2], args).text), f)

\* MCPClient.execute_mcp_tool: outcome "error" is a failure of the transport
\* during call_tool; a call on a closed session fails the same way.
ClientExecuteMcpTool(plat, t, f, name, args, outcome) ==
    IF name \notin t.available_tools
    THEN Returned(Failed(<<"Unknown MCP tool: ">> \o name), f)
    ELSE IF "filesystem" \notin t.connected_servers
    THEN Returned(Failed(<<"MCP server ", "filesystem", " not connected">>), f)
    ELSE IF t.session # "open" \/ outcome = "error"
    THEN Returned(Failed(<<"Error executing MCP tool ">> \o name \o <<": ", "exc">>), f)
    ELSE LET r == HandleCallTool(plat, f, name[2], args)
         IN  Returned(ClientWrap(r.text), r.fs)

\* The connection behind the wrapper cannot carry a call: run_until_complete
\* or call_tool raises, or no server is recorded.
Broken(t) ==
    \/ t.session # "open"
    \/ t.loop # "open"
    \/ "filesystem" \notin t.connected_servers

\* MCPClient.is_mcp_tool
IsMcpTool(t, name) == StartsWithMcp(name) /\ name \in t.available_tools

\* MCPIntegratedTools.execute_tool
IntegratedExecuteTool(plat, rag, t, f, name, args, outcome) ==
    IF t.mcp_connected /\ IsMcpTool(t, name)
    THEN ClientExecuteMcpTool(plat, t, f, name, args, outcome)
    ELSE RegularExecuteTool(rag, f, name, args, outcome)

\* WindowsMCPIntegratedTools.execute_tool
WindowsExecuteTool(plat, rag, f, name, args, outcome) ==
    IF StartsWithMcp(name)
    THEN LET r == DirectExecuteMcpTool(plat, f, name, args)
         IN  Returned(r.res, r.fs)
    ELSE RegularExecuteTool(rag, f, name, args, outcome)

\* MCPToolsWrapper.execute_tool and WindowsMCPToolsWrapper.execute_tool.  A
\* keyword named tool_name collides with the parameter and raises at the call.
WrapperExecuteTool(plat, rag, t, f, name, args, outcome) ==
    IF "tool_name" \in args.keys THEN Raised(f)
    ELSE IF plat = "Windows" THEN WindowsExecuteTool(plat, rag, f, name, args, outcome)
    ELSE IF ~t.mcp_tools \/ t.loop = "None"
    THEN Returned(Failed(<<"MCP not initialized">>), f)
    ELSE IF t.loop = "closed"
    THEN Returned(Failed(<<"Error executing tool: ", "Event loop is closed">>), f)
    ELSE LET r == IntegratedExecuteTool(plat, rag, t, f, name, args, outcome)
         IN  IF r.raised
             THEN Returned(Failed(<<"Error executing tool: ", "exc">>), f)
             ELSE r

\* EnhancedFunctionCallingAgent.execute_tool
AgentExecuteTool(plat, rag, enabled, t, f, name, args, outcome) ==
    IF "tool_name" \in args.keys THEN Raised(f)
    ELSE IF enabled THEN WrapperExecuteTool(plat, rag, t, f, name, args, outcome)
    ELSE RegularExecuteTool(rag, f, name, args, outcome)

\* MCPClient.get_mcp_tools, in the order of the server's list_tools.
McpToolOrder ==
    << McpName("read_file"), McpName("write_file"), McpName("list_directory"),
       McpName("search_files"), McpName("file_info") >>

\* MCPToolsWrapper.get_available_tools / WindowsMCPToolsWrapper.get_available_tools
WrapperGetAvailableTools(plat, rag, t) ==
    IF plat = "Windows" THEN RegularToolNames(rag) \o McpToolOrder
    ELSE IF ~t.mcp_tools THEN <<>>
    ELSE RegularToolNames(rag)
         \o (IF t.mcp_connected
             THEN SelectIdx(McpToolOrder, 1,
                            { i \in 1..Len(McpToolOrder) :
                                McpToolOrder[i] \in t.available_tools })
             ELSE <<>>)

\* EnhancedFunctionCallingAgent.get_available_tools: the names of the catalog.
AgentGetAvailableTools(plat, rag, enabled, t) ==
    IF enabled THEN WrapperGetAvailableTools(plat, rag, t) ELSE RegularToolNames(rag)

-----------------------------------------------------------------------------
(* The file operations as a caller of the transport sees them *)

\* One call of a file tool on the platform's backing implementation, the
\* connection being up: WindowsMCPClient in the agent's process on Windows,
\* MCPClient.execute_mcp_tool in front of the server process elsewhere.
FileOperation(plat, f, op, args) ==
    IF plat = "Windows"
    THEN DirectExecuteMcpTool(plat, f, McpName(op), args)
    ELSE LET r == HandleCallTool(plat, f, op, args)
         IN  [res |-> ClientWrap(r.text), fs |-> r.fs]

-----------------------------------------------------------------------------
(* The invocation loop: the pieces of chat_with_tools *)

\* The tool names the system prompt enumerates.
SystemPrompt(enabled) ==
    IF enabled
    THEN << <<"search_documents">>, <<"search_web">> >> \o McpToolOrder
    ELSE << <<"search_documents">>, <<"search_web">> >>

\* json.dumps(tool_result): the dictionary as JSON text.
JsonDumps(res) == [json |-> res]

SystemMessage(enabled) ==
    [role |-> "system", tool_call_id |-> 0, name |-> <<>>,
     content |-> [text |-> SystemPrompt(enabled)]]
UserMessage ==
    [role |-> "user", tool_call_id |-> 0, name |-> <<>>,
     content |-> [text |-> <<"question">>]]
AssistantMessage(resp) ==
    [role |-> "assistant", tool_call_id |-> 0, name |-> <<>>,
     content |-> [text |-> resp.content]]
ToolMessage(tc, res) ==
    [role |-> "tool", tool_call_id |-> tc.id, name |-> tc.name,
     content |-> JsonDumps(res)]

\* A mutant of the branch: the tool round is entered whatever the response holds.
WantsToolsAlways(tcs) == TRUE

\* "if tool_calls:" - None and the empty list both answer directly.
WantsTools(tcs) == tcs # <<>>

\* A mutant of the for loop: the requests are taken last first.
CallAtReversed(tcs, i) == tcs[Len(tcs) + 1 - i]

\* "for tool_call in tool_calls": the request handled at the loop's i-th turn.
CallAt(tcs, i) == tcs[i]

\* The first call of the completion service: messages, tools, tool_choice auto.
FirstCall(catalog, msgs) == [offered |-> TRUE, tools |-> catalog, messages |-> msgs]

\* A mutant of the second call: the catalog is sent again.
SecondCallWithTools(catalog, msgs) ==
    [offered |-> TRUE, tools |-> catalog, messages |-> msgs]

\* The second call of the completion service: messages only.
SecondCall(catalog, msgs) == [offered |-> FALSE, tools |-> <<>>, messages |-> msgs]

Apology == <<"Sorry, I encountered an error.">>

\* A mutant of the except clause: the error message is returned.
LoopBoundaryLeaks(exc) == [answer |-> <<"Error: ">> \o exc, escaped |-> FALSE]

\* "except Exception": the error is printed, the apology returned.
LoopBoundary(exc) == [answer |-> Apology, escaped |-> FALSE]

\* The text of an exception.
ExcText == <<"exc">>

-----------------------------------------------------------------------------
(* Inputs and initial states *)

Platforms == {"Windows", "Linux"}

\* The contents written.
Contents ==
    { <<>>, <<"a">>, <<"a", LF>>, <<"a", CR, LF, "a">>, <<SP, "A", LF, "a">>,
      <<EAcute>> }

SearchTerms == { <<"a">>, <<"s">> }

\* The file_extension arguments of a search.
Extensions == { "", "n" }

\* json text that decodes to an argument mapping, and json text that does not.
Json(args) == [ok |-> TRUE, val |-> args]
BadJson == [ok |-> FALSE, val |-> NoArgs]

\* The tool-call requests the completion service answers with.
Requests ==
    { [name |-> <<"search_web">>,
       arguments |-> Json(MakeArgs({"query"}, RelPath(<<".">>), <<>>, <<>>))],
      [name |-> <<"search_web">>, arguments |-> Json(NoArgs)],
      [name |-> <<"search_web">>, arguments |-> BadJson],
      [name |-> <<"search_documents">>,
       arguments |-> Json(MakeArgs({"query", "tool_name"}, RelPath(<<".">>), <<>>, <<>>))],
      [name |-> <<"bogus">>,
       arguments |-> Json(MakeArgs({"query"}, RelPath(<<".">>), <<>>, <<>>))],
      [name |-> McpName("write_file"),
       arguments |-> Json(MakeArgs({"file_path", "content"}, RelPath(<<"f">>),
                                   <<"a">>, <<>>))],
      [name |-> McpName("read_file"),
       arguments |-> Json(MakeArgs({"file_path"}, RelPath(<<"f">>), <<>>, <<>>))],
      [name |-> McpName("read_file"), arguments |-> Json(NoArgs)] }

\* requests with their correlation ids: the position in the response.
WithIds(reqs) ==
    [i \in 1..Len(reqs) |->
        [id |-> i, name |-> reqs[i].name, arguments |-> reqs[i].arguments]]

RequestLists == UNION { [1..n -> Requests] : n \in 0..MaxToolCalls }

NoResponse == [raised |-> TRUE, content |-> <<>>, tool_calls |-> <<>>]

\* The names and argument mappings execute_tool is called with directly.
Invocations ==
    { [name |-> <<"search_web">>,
       args |-> MakeArgs({"query"}, RelPath(<<".">>), <<>>, <<>>)],
      [name |-> <<"search_documents">>,
       args |-> MakeArgs({"query"}, RelPath(<<".">>), <<>>, <<>>)],
      [name |-> <<"bogus">>,
       args |-> MakeArgs({"query"}, RelPath(<<".">>), <<>>, <<>>)],
      [name |-> <<"read_file">>,
       args |-> MakeArgs({"file_path"}, RelPath(<<"f">>), <<>>, <<>>)],
      [name |-> McpName("read_file"),
       args |-> MakeArgs({"file_path"}, RelPath(<<"f">>), <<>>, <<>>)],
      [name |-> McpName("write_file"),
       args |-> MakeArgs({"file_path", "content"}, RelPath(<<"f">>), <<"a">>, <<>>)],
      [name |-> McpName("list_directory"), args |-> NoArgs],
      [name |-> McpName("bogus"),
       args |-> MakeArgs({"file_path"}, RelPath(<<"f">>), <<>>, <<>>)],
      [name |-> <<"mcp_", "mcp_", "write_file">>,
       args |-> MakeArgs({"file_path", "content"}, RelPath(<<"f">>), <<"a">>, <<>>)] }

\* What the first call of the completion service can do.
FirstResponses ==
    {NoResponse}
    \cup { [raised |-> FALSE, content |-> <<"answer1">>, tool_calls |-> WithIds(reqs)] :
             reqs \in RequestLists }

\* What the second call can do; its response may ask for tools again.
SecondResponses ==
    {NoResponse}
    \cup { [raised |-> FALSE, content |-> <<"answer2">>, tool_calls |-> WithIds(reqs)] :
             reqs \in { <<>>, << [name |-> <<"search_web">>,
                                  arguments |-> Json(NoArgs)] >> } }

ExecuteOutcomes == {"ok", "error"}

NoOperation ==
    [op |-> "none", path |-> RelPath(<<".">>), content |-> <<>>, ext |-> "",
     res |-> Failed(<<>>), changed |-> FALSE]

NoCall == [op |-> "none", prev |-> "none", raised |-> FALSE, ret |-> FALSE,
           attempted |-> FALSE, connected |-> FALSE, spawned |-> FALSE]

\* The threads of the server, one request each.
Threads == {1, 2}

\* Before any request: agent_initialized is False and initialize_mcp was not
\* called; every thread is about to run chat(); no conversation exists.
NoWeb ==
    [agent_initialized |-> FALSE,
     inits |-> 0,                          \* history: calls of agent.initialize_mcp
     pc |-> [t \in Threads |-> "start"],   \* start, init, chat, dispatch, tool, done
     msgs |-> [t \in Threads |-> <<>>],    \* chat_with_tools: messages of the run
     calls |-> [t \in Threads |-> <<>>],   \* the requests the for loop has yet to take
     within |-> {},                        \* threads inside the wrapper's execute_tool
     answer |-> [t \in Threads |-> <<>>]]

FilesIdle == written = <<>> /\ last = NoOperation /\ nOps = 0
LifeIdle == call = NoCall /\ nCalls = 0
\* No direct call of get_available_tools or execute_tool was made yet.
NoUse ==
    [op |-> "none", name |-> <<>>, args |-> NoArgs, outcome |-> "ok",
     enabled |-> FALSE, broken |-> TRUE, after |-> "none", connected |-> FALSE,
     catalog |-> <<>>, raised |-> FALSE, res |-> Failed(<<>>), changed |-> FALSE]
UseIdle == use = NoUse

LoopIdle ==
    /\ pc = "idle"
    /\ messages = <<>>
    /\ tool_calls = <<>>
    /\ idx = 0
    /\ completions = <<>>
    /\ responses = <<>>
    /\ dispatched = <<>>
    /\ answer = <<>>
    /\ escaped = FALSE

-----------------------------------------------------------------------------
(* The file operations, called in any order on a connected transport *)

InitFiles ==
    /\ platform \in Platforms
    /\ base_directory = BaseArg
    /\ has_rag = TRUE
    /\ fs = InitialFs
    /\ FilesIdle
    /\ mcp_enabled = TRUE
    /\ transport = WrapperInitialize(platform, NewTransport(platform), "open").t
    /\ LifeIdle
    /\ LoopIdle
    /\ UseIdle
    /\ web = NoWeb

\* The file a write of p by the platform's implementation goes to.
WrittenLocation(plat, f, p) ==
    IF plat = "Windows" THEN DirectSafePath(f, p).loc ELSE SafePath(f, p).loc

\* The bookkeeping of one operation: the filesystem it leaves, what it
\* returned, and for a write that reported success the content it was given.
Record(op, p, content, ext, out) ==
    /\ nOps < MaxOps
    /\ nOps' = nOps + 1
    /\ fs' = out.fs
    /\ last' = [op |-> op, path |-> p, content |-> content, ext |-> ext,
                res |-> out.res,
                changed |-> out.fs # fs]
    /\ written' =
         IF op = "write_file" /\ out.res.result # <<>>
            /\ Head(out.res.result) = "Successfully wrote "
         THEN LET loc == WrittenLocation(platform, fs, p)
              IN  [q \in DOMAIN written \cup {loc} |->
                      IF q = loc THEN content ELSE written[q]]
         ELSE written
    /\ UNCHANGED <<platform, base_directory, web, has_rag, mcp_enabled, transport, lifeVars, loopVars, use>>

ReadFile(p) ==
    Record("read_file", p, <<>>, "",
           FileOperation(platform, fs, "read_file",
                         MakeArgs({"file_path"}, p, <<>>, <<>>)))

WriteFile(p, content) ==
    Record("write_file", p, content, "",
           FileOperation(platform, fs, "write_file",
                         MakeArgs({"file_path", "content"}, p, content, <<>>)))

ListDirectory(p) ==
    Record("list_directory", p, <<>>, "",
           FileOperation(platform, fs, "list_directory",
                         MakeArgs({"directory_path"}, p, <<>>, <<>>)))

\* The bookkeeping keeps the search term as the content of the operation.
SearchFiles(term, p, ext) ==
    Record("search_files", p, term, ext,
           FileOperation(platform, fs, "search_files",
                         [MakeArgs({"search_term", "directory_path", "file_extension"},
                                   p, <<>>, term) EXCEPT !.ext = ext]))

FileInfo(p) ==
    Record("file_info", p, <<>>, "",
           FileOperation(platform, fs, "file_info",
                         MakeArgs({"path"}, p, <<>>, <<>>)))

NextFiles ==
    \/ \E p \in PathStrings : ReadFile(p)
    \/ \E p \in PathStrings, c \in Contents : WriteFile(p, c)
    \/ \E p \in PathStrings : ListDirectory(p)
    \/ \E p \in PathStrings, t \in SearchTerms, ext \in Extensions :
          SearchFiles(t, p, ext)
    \/ \E p \in PathStrings : FileInfo(p)

SpecFiles == InitFiles /\ [][NextFiles]_vars

-----------------------------------------------------------------------------
(* The file operations on a transport initialised with any base directory *)

InitBase ==
    /\ platform \in Platforms
    /\ base_directory \in BaseDirectories
    /\ has_rag = TRUE
    /\ fs = InitialFs
    /\ FilesIdle
    /\ mcp_enabled = TRUE
    /\ transport = WrapperInitialize(platform, NewTransport(platform), "open").t
    /\ LifeIdle
    /\ LoopIdle
    /\ UseIdle
    /\ web = NoWeb

SpecBase == InitBase /\ [][NextFiles]_vars

-----------------------------------------------------------------------------
(* The file operations on a base directory that holds a link to a file *)

InitLinks ==
    /\ platform \in Platforms
    /\ base_directory = BaseArg
    /\ has_rag = TRUE
    /\ fs = LinkedFs
    /\ FilesIdle
    /\ mcp_enabled = TRUE
    /\ transport = WrapperInitialize(platform, NewTransport(platform), "open").t
    /\ LifeIdle
    /\ LoopIdle
    /\ UseIdle
    /\ web = NoWeb

SpecLinks == InitLinks /\ [][NextFiles]_vars

-----------------------------------------------------------------------------
(* The file operations on a base directory that holds a file of many lines *)

InitSearch ==
    /\ platform \in Platforms
    /\ base_directory = BaseArg
    /\ has_rag = TRUE
    /\ fs = SearchFs
    /\ FilesIdle
    /\ mcp_enabled = TRUE
    /\ transport = WrapperInitialize(platform, NewTransport(platform), "open").t
    /\ LifeIdle
    /\ LoopIdle
    /\ UseIdle
    /\ web = NoWeb

SpecSearch == InitSearch /\ [][NextFiles]_vars

-----------------------------------------------------------------------------
(* The life cycle of the transport: connect and disconnect, called in any order *)

InitTransport ==
    /\ platform \in Platforms
    /\ base_directory = BaseArg
    /\ has_rag \in BOOLEAN
    /\ fs = InitialFs
    /\ FilesIdle
    /\ mcp_enabled = FALSE
    /\ transport = NewTransport(platform)
    /\ LifeIdle
    /\ LoopIdle
    /\ UseIdle
    /\ web = NoWeb

\* The bookkeeping of one life-cycle call.
Called(op, raised, ret) ==
    /\ nCalls < MaxLifeCalls
    /\ nCalls' = nCalls + 1
    /\ call' = [op |-> op, prev |-> call.op, raised |-> raised, ret |-> ret,
                attempted |-> call.attempted \/ op = "initialize_mcp",
                connected |-> call.connected \/ (op = "initialize_mcp" /\ ret),
                spawned |-> \/ call.spawned
                            \/ transport'.process = "running"
                            \/ transport'.orphan_procs > transport.orphan_procs]
    /\ UNCHANGED <<platform, base_directory, web, has_rag, fs, written, last, nOps, loopVars, use>>

\* A mutant of initialize_mcp: the flag is set whatever initialize returned.
InitializeMcpSetsFlag(outcome) ==
    LET r == WrapperInitialize(platform, transport, outcome)
    IN  /\ transport' = r.t
        /\ mcp_enabled' = TRUE
        /\ Called("initialize_mcp", FALSE, r.ret)

\* EnhancedFunctionCallingAgent.initialize_mcp
InitializeMcp(outcome) ==
    LET r == WrapperInitialize(platform, transport, outcome)
    IN  /\ transport' = r.t
        /\ mcp_enabled' = (mcp_enabled \/ r.ret)
        /\ Called("initialize_mcp", FALSE, r.ret)

\* A mutant of cleanup: the flag is reset.
CleanupResetsFlag ==
    LET r == IF mcp_enabled THEN WrapperCleanup(platform, transport)
             ELSE [t |-> transport, raised |-> FALSE]
    IN  /\ transport' = r.t
        /\ mcp_enabled' = FALSE
        /\ Called("cleanup", r.raised, FALSE)

\* EnhancedFunctionCallingAgent.cleanup
Cleanup ==
    LET r == IF mcp_enabled THEN WrapperCleanup(platform, transport)
             ELSE [t |-> transport, raised |-> FALSE]
    IN  /\ transport' = r.t
        /\ UNCHANGED mcp_enabled
        /\ Called("cleanup", r.raised, FALSE)

\* The wrapper's cleanup called on the transport itself.
Disconnect ==
    LET r == WrapperCleanup(platform, transport)
    IN  /\ transport' = r.t
        /\ UNCHANGED mcp_enabled
        /\ Called("disconnect", r.raised, FALSE)

\* MCPIntegratedTools.cleanup / MCPClient.cleanup called below the wrapper.
ClientDisconnect ==
    /\ platform # "Windows"
    /\ transport.mcp_tools
    /\ transport' = IntegratedCleanup(transport)
    /\ UNCHANGED mcp_enabled
    /\ Called("client_disconnect", FALSE, FALSE)

NextTransport ==
    \/ \E outcome \in ConnectOutcomes : InitializeMcp(outcome)
    \/ Cleanup
    \/ Disconnect
    \/ ClientDisconnect

SpecTransport ==
    InitTransport /\ [][NextTransport]_vars

-----------------------------------------------------------------------------
(* The agent's tool interface, called directly (as the web application does) *)
(* between the calls of the life cycle                                      *)

\* The bookkeeping of one direct call: the catalog before it, what it
\* returned and the filesystem it leaves.
Used(op, inv, outcome, catalog, r) ==
    /\ use' = [op |-> op, name |-> inv.name, args |-> inv.args, outcome |-> outcome,
               enabled |-> mcp_enabled, broken |-> Broken(transport),
               after |-> call.op, connected |-> call.connected,
               catalog |-> catalog, raised |-> r.raised, res |-> r.res,
               changed |-> r.fs # fs]
    /\ fs' = r.fs
    /\ UNCHANGED <<platform, base_directory, web, has_rag, written, last, nOps, mcp_enabled, transport,
                   lifeVars, loopVars>>

\* EnhancedFunctionCallingAgent.get_available_tools
GetAvailableTools ==
    Used("get_available_tools", [name |-> <<>>, args |-> NoArgs], "ok",
         AgentGetAvailableTools(platform, has_rag, mcp_enabled, transport),
         Returned(Succeeded(<<>>), fs))

\* EnhancedFunctionCallingAgent.execute_tool
ExecuteTool(inv, outcome) ==
    Used("execute_tool", inv, outcome,
         AgentGetAvailableTools(platform, has_rag, mcp_enabled, transport),
         AgentExecuteTool(platform, has_rag, mcp_enabled, transport, fs,
                          inv.name, inv.args, outcome))

\* The server process ends on its own: the session over its pipes is closed.
ServerExits ==
    /\ platform # "Windows"
    /\ transport.process = "running"
    /\ transport' = [transport EXCEPT !.process = "terminated", !.session = "closed"]
    /\ UNCHANGED <<platform, base_directory, web, has_rag, fs, written, last, nOps, mcp_enabled,
                   lifeVars, loopVars, use>>

NextAgent ==
    \/ \E outcome \in ConnectOutcomes : InitializeMcp(outcome)
    \/ Cleanup
    \/ ServerExits
    \/ GetAvailableTools
    \/ \E inv \in Invocations, outcome \in ExecuteOutcomes : ExecuteTool(inv, outcome)

SpecAgent == InitTransport /\ [][NextAgent]_vars

-----------------------------------------------------------------------------
(* The invocation loop: one run of chat_with_tools after the agent's start *)

Init ==
    /\ platform \in Platforms
    /\ base_directory = BaseArg
    /\ has_rag \in BOOLEAN
    /\ fs = InitialFs
    /\ FilesIdle
    /\ mcp_enabled = FALSE
    /\ transport = NewTransport(platform)
    /\ LifeIdle
    /\ LoopIdle
    /\ UseIdle
    /\ web = NoWeb

\* interactive_chat / initialize_agent: initialize_mcp once, before any chat.
Start(outcome) ==
    /\ pc = "idle"
    /\ nCalls = 0
    /\ InitializeMcp(outcome)

\* A mutant of the except clause: the exception is swallowed and the run
\* goes on where it was.
FailsAndGoesOn ==
    /\ pc' = pc
    /\ UNCHANGED <<answer, escaped>>

\* chat_with_tools leaves through its except clause.
Fails ==
    LET b == LoopBoundary(ExcText)
    IN  /\ pc' = "done"
        /\ answer' = b.answer
        /\ escaped' = b.escaped

\* chat_with_tools up to its branch: the conversation is composed, the catalog
\* built, the completion service called with both, and its response examined.
Chat(resp) ==
    LET msgs == <<SystemMessage(mcp_enabled), UserMessage>>
        catalog == AgentGetAvailableTools(platform, has_rag, mcp_enabled, transport)
    IN  /\ pc = "idle"
        /\ completions' = <<FirstCall(catalog, msgs)>>
        /\ responses' = <<resp>>
        /\ IF resp.raised
           THEN /\ Fails
                /\ messages' = msgs
                /\ UNCHANGED <<tool_calls, idx>>
           ELSE IF WantsTools(resp.tool_calls)
           THEN /\ messages' = Append(msgs, AssistantMessage(resp))
                /\ tool_calls' = resp.tool_calls
                /\ idx' = 1
                /\ pc' = "dispatch"
                /\ UNCHANGED <<answer, escaped>>
           ELSE /\ messages' = msgs
                /\ answer' = resp.content
                /\ pc' = "done"
                /\ UNCHANGED <<tool_calls, idx, escaped>>
        /\ UNCHANGED <<platform, base_directory, web, has_rag, fs, written, last, nOps, mcp_enabled,
                       transport, lifeVars, dispatched, use>>

\* One turn of the for loop: the arguments are decoded, the tool executed, its
\* result appended as a tool-role message.
ToolCallBody(tc, r) ==
    IF ~tc.arguments.ok
    THEN /\ Fails
         /\ UNCHANGED <<fs, dispatched, messages, idx>>
    ELSE /\ fs' = r.fs
         /\ dispatched' = Append(dispatched,
                [id |-> tc.id, name |-> tc.name, raised |-> r.raised,
                 res |-> r.res, after |-> Len(completions)])
         /\ IF r.raised
            THEN /\ Fails
                 /\ UNCHANGED <<messages, idx>>
            ELSE /\ messages' = Append(messages, ToolMessage(tc, r.res))
                 /\ idx' = idx + 1
                 /\ UNCHANGED <<pc, answer, escaped>>

\* The agent's execute_tool applied to the name and the decoded arguments of
\* one request (line 165).
ExecuteRequest(tc, outcome) ==
    AgentExecuteTool(platform, has_rag, mcp_enabled, transport, fs,
                     tc.name, tc.arguments.val, outcome)

\* One iteration of the for loop over tool_calls.
DispatchToolCall(outcome) ==
    /\ pc = "dispatch"
    /\ idx <= Len(tool_calls)
    /\ ToolCallBody(CallAt(tool_calls, idx),
                    ExecuteRequest(CallAt(tool_calls, idx), outcome))
    /\ UNCHANGED <<platform, base_directory, web, has_rag, written, last, nOps, mcp_enabled, transport,
                   lifeVars, tool_calls, completions, responses, use>>

\* After the for loop: the completion service is called with the extended
\* conversation and its content returned.
SecondCompletion(resp) ==
    LET catalog == AgentGetAvailableTools(platform, has_rag, mcp_enabled, transport)
    IN  /\ pc = "dispatch"
        /\ idx > Len(tool_calls)
        /\ completions' = Append(completions, SecondCall(catalog, messages))
        /\ responses' = Append(responses, resp)
        /\ IF resp.raised
           THEN Fails
           ELSE /\ answer' = resp.content
                /\ pc' = "done"
                /\ UNCHANGED escaped
        /\ UNCHANGED <<platform, base_directory, web, has_rag, fs, written, last, nOps, mcp_enabled,
                       transport, lifeVars, messages, tool_calls, idx, dispatched, use>>

Next ==
    \/ \E outcome \in ConnectOutcomes : Start(outcome)
    \/ \E resp \in FirstResponses : Chat(resp)
    \/ \E outcome \in ExecuteOutcomes : DispatchToolCall(outcome)
    \/ \E resp \in SecondResponses : SecondCompletion(resp)

Spec == Init /\ [][Next]_vars

-----------------------------------------------------------------------------
(* The web application: requests handled by threads on the one shared agent *)

\* What the first completion call of thread t's run can return: an exception,
\* an answer, or one request with an id of its own.
WebResponses(t) ==
    { NoResponse,
      [raised |-> FALSE, content |-> <<"answer1">>, tool_calls |-> <<>>],
      [raised |-> FALSE, content |-> <<"answer1">>,
       tool_calls |-> << [id |-> <<t, 1>>, name |-> <<"search_web">>,
                          arguments |-> Json(MakeArgs({"query"}, RelPath(<<".">>),
                                                      <<>>, <<>>))] >>],
      [raised |-> FALSE, content |-> <<"answer1">>,
       tool_calls |-> << [id |-> <<t, 1>>, name |-> McpName("write_file"),
                          arguments |-> Json(MakeArgs({"file_path", "content"},
                                                      RelPath(<<"f">>), <<"a">>,
                                                      <<>>))] >>] }

\* A mutant of the conversation's creation: the list is kept on the agent and
\* the run continues the one it finds there.
KeptMessages(enabled, found, text) ==
    found \o <<SystemMessage(enabled), [UserMessage EXCEPT !.content = [text |-> text]]>>

\* "messages = [system, user]": a new list local to the run, whatever list an
\* other run on the agent has.
FreshMessages(enabled, found, text) ==
    <<SystemMessage(enabled), [UserMessage EXCEPT !.content = [text |-> text]]>>

\* initialize_agent, line 32: "if not agent_initialized".
CheckInitialized(t) ==
    /\ web.pc[t] = "start"
    /\ web' = [web EXCEPT !.pc[t] = IF web.agent_initialized THEN "chat" ELSE "init"]
    /\ UNCHANGED <<platform, base_directory, fs, written, last, nOps, has_rag,
                   mcp_enabled, transport, lifeVars, loopVars, use>>

\* initialize_agent, lines 33-40: agent.initialize_mcp(), then the flag is set.
InitializeAgent(t, outcome) ==
    /\ web.pc[t] = "init"
    /\ transport' = WrapperInitialize(platform, transport, outcome).t
    /\ mcp_enabled' = (mcp_enabled \/ WrapperInitialize(platform, transport, outcome).ret)
    /\ web' = [web EXCEPT !.pc[t] = "chat", !.agent_initialized = TRUE,
                          !.inits = @ + 1]
    /\ UNCHANGED <<platform, base_directory, fs, written, last, nOps, has_rag,
                   lifeVars, loopVars, use>>

\* chat_with_tools up to its branch, on thread t.
ChatStart(t, resp) ==
    /\ web.pc[t] = "chat"
    /\ web' =
         IF resp.raised
         THEN [web EXCEPT !.pc[t] = "done", !.answer[t] = Apology,
                 !.msgs[t] = FreshMessages(mcp_enabled, web.msgs[3 - t],
                                           <<"question", t>>)]
         ELSE IF WantsTools(resp.tool_calls)
         THEN [web EXCEPT !.pc[t] = "dispatch", !.calls[t] = resp.tool_calls,
                 !.msgs[t] = Append(FreshMessages(mcp_enabled, web.msgs[3 - t],
                                                  <<"question", t>>),
                                    AssistantMessage(resp))]
         ELSE [web EXCEPT !.pc[t] = "done", !.answer[t] = resp.content,
                 !.msgs[t] = FreshMessages(mcp_enabled, web.msgs[3 - t],
                                           <<"question", t>>)]
    /\ UNCHANGED <<platform, base_directory, fs, written, last, nOps, has_rag,
                   mcp_enabled, transport, lifeVars, loopVars, use>>

\* The for loop takes its next request and calls execute_tool: with
\* mcp_enabled the thread enters the wrapper; no lock is taken.
DispatchEnter(t) ==
    /\ web.pc[t] = "dispatch"
    /\ web.calls[t] # <<>>
    /\ web' = [web EXCEPT !.pc[t] = "tool",
                          !.within = IF mcp_enabled THEN @ \cup {t} ELSE @]
    /\ UNCHANGED <<platform, base_directory, fs, written, last, nOps, has_rag,
                   mcp_enabled, transport, lifeVars, loopVars, use>>

\* execute_tool returns r for the request tc: the thread leaves the wrapper
\* and appends the tool message, or leaves through the except clause.
ToolReturns(t, tc, r) ==
    /\ fs' = r.fs
    /\ web' =
         IF r.raised
         THEN [web EXCEPT !.pc[t] = "done", !.answer[t] = Apology,
                          !.within = @ \ {t}]
         ELSE [web EXCEPT !.pc[t] = "dispatch", !.calls[t] = Tail(@),
                          !.within = @ \ {t},
                          !.msgs[t] = Append(@, ToolMessage(tc, r.res))]
    /\ UNCHANGED <<platform, base_directory, written, last, nOps, has_rag,
                   mcp_enabled, transport, lifeVars, loopVars, use>>

DispatchLeave(t, outcome) ==
    /\ web.pc[t] = "tool"
    /\ ToolReturns(t, Head(web.calls[t]),
                   AgentExecuteTool(platform, has_rag, mcp_enabled, transport, fs,
                                    Head(web.calls[t]).name,
                                    Head(web.calls[t]).arguments.val, outcome))

\* After the for loop: the second completion call and the answer.
ChatFinish(t, resp) ==
    /\ web.pc[t] = "dispatch"
    /\ web.calls[t] = <<>>
    /\ web' = [web EXCEPT !.pc[t] = "done",
                          !.answer[t] = IF resp.raised THEN Apology ELSE resp.content]
    /\ UNCHANGED <<platform, base_directory, fs, written, last, nOps, has_rag,
                   mcp_enabled, transport, lifeVars, loopVars, use>>

\* The module imported by a server (nothing initialised), or run as a script,
\* which calls initialize_agent once before it serves.
InitWeb ==
    /\ platform \in Platforms
    /\ base_directory = BaseArg
    /\ has_rag \in BOOLEAN
    /\ fs = InitialFs
    /\ FilesIdle
    /\ LifeIdle
    /\ LoopIdle
    /\ UseIdle
    /\ \/ /\ web = NoWeb
          /\ mcp_enabled = FALSE
          /\ transport = NewTransport(platform)
       \/ \E outcome \in ConnectOutcomes :
            /\ web = [NoWeb EXCEPT !.agent_initialized = TRUE, !.inits = 1]
            /\ mcp_enabled = WrapperInitialize(platform, NewTransport(platform),
                                               outcome).ret
            /\ transport = WrapperInitialize(platform, NewTransport(platform),
                                             outcome).t

NextWeb ==
    \E t \in Threads :
        \/ CheckInitialized(t)
        \/ \E outcome \in ConnectOutcomes : InitializeAgent(t, outcome)
        \/ \E resp \in WebResponses(t) : ChatStart(t, resp)
        \/ DispatchEnter(t)
        \/ \E outcome \in ExecuteOutcomes : DispatchLeave(t, outcome)
        \/ \E resp \in SecondResponses : ChatFinish(t, resp)

SpecWeb == InitWeb /\ [][NextWeb]_vars

-----------------------------------------------------------------------------
(* Claims about the file operations *)

\* The canonical resolution of p is neither the base directory nor below it.
Outside(f, p) == ~IsPrefix(Resolve(f, BaseArg), Resolve(f, p))

\* The result is the access-denied error of an operation and nothing else.
DeniedResult(r) ==
    LET text == r.result \o r.error
    IN  Len(text) = 2 /\ text[2] = AccessDenied

\* C1 - Sandbox invariant: an operation (read, write, list, search, info) on a
\* path whose canonical resolution lies outside the base directory returns the
\* access-denied error and leaves the filesystem as it was.
SandboxInvariant ==
    (last.op \in FileOps /\ Outside(fs, last.path))
        => (DeniedResult(last.res) /\ ~last.changed)

\* C1 witness: a write through a symbolic link that leaves the base directory
\* was refused.
SandboxWitness ==
    /\ last.op = "write_file"
    /\ last.path = RelPath(<<"lnk", "g">>)
    /\ Outside(fs, last.path)
    /\ DeniedResult(last.res)

\* The heading a read puts in front of the content of p.
ReadHeading(p) == <<"File: ">> \o PathText(p) \o <<LF, "---">>

\* The content held by the text a read of p returned: what follows the
\* heading and its line feed (nothing, where the text ends with the heading).
ReturnedContent(p, text) ==
    IF text = ReadHeading(p) THEN <<>>
    ELSE IF IsPrefix(ReadHeading(p) \o <<LF>>, text)
    THEN SubSeq(text, Len(ReadHeading(p)) + 2, Len(text))
    ELSE <<"no content">>

\* C5 - Round-trip: a read of a path inside the sandbox whose last write gave
\* content c succeeds and returns c exactly, on either backing implementation.
RoundTrip ==
    (/\ last.op = "read_file"
     /\ ~Outside(fs, last.path)
     /\ Resolve(fs, last.path) \in DOMAIN written)
        => /\ last.res.success
           /\ ReturnedContent(last.path, last.res.result)
                = written[Resolve(fs, last.path)]

-----------------------------------------------------------------------------
(* Claims about the life cycle of the transport *)

\* A resource the disconnect op is responsible for is still held: a server
\* subprocess runs, or, below the wrapper's cleanup, an event loop is open.
Unreleased(op, t) ==
    \/ t.process = "running"
    \/ t.orphan_procs > 0
    \/ (op = "disconnect" /\ (t.loop = "open" \/ t.orphan_loops > 0))

\* C6 - Idempotent disconnect: the transport's disconnect, called on a
\* transport on which no connect was ever attempted, or a second time in
\* succession after a connect, raises no error and leaves no subprocess
\* running and no event loop open.
IdempotentDisconnect ==
    (/\ call.op \in {"disconnect", "client_disconnect"}
     /\ (~call.attempted \/ (call.connected /\ call.prev = call.op)))
        => (~call.raised /\ ~Unreleased(call.op, transport))

-----------------------------------------------------------------------------
(* Claims about dispatch and the invocation loop *)

\* C2 - Dispatch totality: every dispatch through the agent's execute_tool,
\* whatever the tool name and the argument mapping, returns one result with a
\* success flag and does not raise to its caller, with and without MCP.
DispatchTotality ==
    \A i \in DOMAIN dispatched :
        ~dispatched[i].raised /\ dispatched[i].res.success \in BOOLEAN

\* The first completion answered, and its response asks for no tool.
AnsweredDirectly ==
    /\ Len(responses) >= 1
    /\ ~responses[1].raised
    /\ responses[1].tool_calls = <<>>

\* C3 - No-tool-call short-circuit: when the first completion response carries
\* no tool-call request, no tool is dispatched, no second completion call is
\* made, and the answer returned is the content of the first response.
NoToolCallShortCircuit ==
    AnsweredDirectly =>
        /\ dispatched = <<>>
        /\ Len(completions) = 1
        /\ pc = "done"
        /\ answer = responses[1].content

\* C3 witness: a run ended on a first response without requests.
ShortCircuitWitness ==
    AnsweredDirectly /\ pc = "done" /\ answer = <<"answer1">> /\ mcp_enabled

\* The tool-role messages of the conversation, in their order.
ToolMessages == SelectSeq(messages, LAMBDA m : m.role = "tool")

\* C4 - Ordering: the i-th dispatch is of the i-th request the completion
\* service returned and the i-th tool-role message carries that request's
\* id, so of two requests the earlier is executed first and answered first.
Ordering ==
    /\ \A i \in DOMAIN dispatched :
          /\ i <= Len(responses[1].tool_calls)
          /\ dispatched[i].id = responses[1].tool_calls[i].id
          /\ dispatched[i].name = responses[1].tool_calls[i].name
    /\ \A j \in DOMAIN ToolMessages :
          /\ j <= Len(dispatched)
          /\ ToolMessages[j].tool_call_id = dispatched[j].id
          /\ ToolMessages[j].name = dispatched[j].name

\* C4 witness: two different requests were dispatched and answered in turn.
OrderingWitness ==
    /\ Len(dispatched) = 2
    /\ Len(ToolMessages) = 2
    /\ dispatched[1].name = <<"search_web">>
    /\ dispatched[2].name = McpName("read_file")
    /\ ToolMessages[1].tool_call_id = 1
    /\ ToolMessages[2].tool_call_id = 2

\* C7 - Exactly one tool round: the completion service is called at most
\* twice, the second call carries no tool catalog, every dispatch happened
\* before it, and requests of the second response are not executed.
ExactlyOneToolRound ==
    /\ Len(completions) <= 2
    /\ Len(completions) >= 1 => completions[1].offered
    /\ Len(completions) = 2 =>
          /\ ~completions[2].offered
          /\ completions[2].tools = <<>>
    /\ \A i \in DOMAIN dispatched : dispatched[i].after = 1
    /\ Len(completions) >= 1 => Len(dispatched) <= Len(responses[1].tool_calls)

\* C7 witness: the second response asked for a tool and the run ended with
\* its content, the request not executed.
OneRoundWitness ==
    /\ pc = "done"
    /\ Len(responses) = 2
    /\ ~responses[2].raised
    /\ responses[2].tool_calls # <<>>
    /\ answer = <<"answer2">>
    /\ Len(dispatched) = Len(responses[1].tool_calls)

\* The decoding of the arguments of the request at hand failed.
DecodeFailed ==
    pc = "done" /\ idx \in DOMAIN tool_calls /\ ~tool_calls[idx].arguments.ok

\* An exception occurred inside the run.
RunFailed ==
    \/ \E i \in DOMAIN responses : responses[i].raised
    \/ \E i \in DOMAIN dispatched : dispatched[i].raised
    \/ DecodeFailed

\* C8 - Loop failure boundary: the run never raises to its caller; after an
\* exception in a completion call, in the decoding of arguments or in a
\* dispatch it has returned the fixed apology, which holds no exception text.
LoopFailureBoundary ==
    /\ ~escaped
    /\ RunFailed =>
          /\ pc = "done"
          /\ answer = Apology
          /\ ~Contains(answer, ExcText)

\* C8 witness: a dispatch raised and the run returned the apology.
FailureBoundaryWitness ==
    /\ \E i \in DOMAIN dispatched : dispatched[i].raised
    /\ pc = "done"
    /\ answer = Apology

\* The request at position k failed: its tool returned a failed result, its
\* dispatch raised, or its arguments could not be decoded.
CallFailed(k) ==
    \/ ~tool_calls[k].arguments.ok
    \/ /\ k \in DOMAIN dispatched
       /\ (dispatched[k].raised \/ ~dispatched[k].res.success)

\* C9 - Per-call partial failure: at the end of a run, for every position k
\* of the batch whose call failed, the failure of k is in the conversation as
\* a tool-role message and every request after k was dispatched.
PerCallPartialFailure ==
    pc = "done" =>
        \A k \in DOMAIN tool_calls :
            CallFailed(k) =>
                /\ \E j \in DOMAIN ToolMessages :
                      ToolMessages[j].tool_call_id = tool_calls[k].id
                /\ \A n \in DOMAIN tool_calls :
                      n > k => \E i \in DOMAIN dispatched :
                                  dispatched[i].id = tool_calls[n].id

\* The dispatches of the request with correlation id c.
DispatchesOf(c) == { i \in DOMAIN dispatched : dispatched[i].id = c }

\* The tool-role messages that carry correlation id c and the JSON text of a
\* result produced for it.
ResultMessagesOf(c) ==
    { j \in DOMAIN messages :
        /\ messages[j].role = "tool"
        /\ messages[j].tool_call_id = c
        /\ \E i \in DispatchesOf(c) :
              messages[j].content = JsonDumps(dispatched[i].res) }

\* C10 - One result per request: at the end of a run whose first response
\* held n >= 1 requests, each request has exactly one result and exactly one
\* tool-role message with its id and the serialised result, and the
\* conversation holds n tool-role messages.
OneResultPerRequest ==
    (pc = "done" /\ tool_calls # <<>>) =>
        /\ \A k \in DOMAIN tool_calls :
              /\ Cardinality(DispatchesOf(tool_calls[k].id)) = 1
              /\ Cardinality(ResultMessagesOf(tool_calls[k].id)) = 1
        /\ Len(ToolMessages) = Len(tool_calls)

-----------------------------------------------------------------------------
(* Claims about the agent's tool interface *)

\* The name is one of the catalog's.
InCatalog(name, catalog) == \E i \in DOMAIN catalog : catalog[i] = name

\* The result is the failure of a dispatch that found no tool of that name:
\* its error says so and holds the name.
UnknownToolResult(res, name) ==
    /\ ~res.success
    /\ res.error # <<>>
    /\ Head(res.error) \in {"Unknown tool: ", "Unknown MCP tool: ", "Unknown MCP operation: "}
    /\ Contains(res.error, name)

\* C11 - Fail-closed dispatch: execute_tool with a name that is not in the
\* catalog get_available_tools returns at that moment does not raise, returns
\* a failed result whose error names the unknown tool, and runs no handler:
\* the filesystem is as it was.
FailClosedDispatch ==
    (use.op = "execute_tool" /\ ~InCatalog(use.name, use.catalog)) =>
        /\ ~use.raised
        /\ UnknownToolResult(use.res, use.name)
        /\ ~use.changed

-----------------------------------------------------------------------------
(* Claims about the system prompt and the catalog of a run *)

\* The elements of a sequence.
Range(seq) == { seq[i] : i \in DOMAIN seq }

\* C12 - System prompt matches the catalog: in every run the tool names the
\* system prompt enumerates are exactly the tool names of the catalog sent
\* with the first completion call, with and without MCP, with and without
\* a document-search source.
PromptMatchesCatalog ==
    Len(completions) >= 1 =>
        Range(completions[1].messages[1].content.text) = Range(completions[1].tools)

-----------------------------------------------------------------------------
(* Claims about a run after the connect at the agent's start *)

\* The connect at the agent's start failed.
Degraded == call.op = "initialize_mcp" /\ ~call.ret

\* The dispatch d of the request tc did what the local tools do with it.
LocalResult(d, tc) ==
    \E o \in ExecuteOutcomes :
        /\ d.raised = RegularExecuteTool(has_rag, fs, tc.name, tc.arguments.val, o).raised
        /\ d.res = RegularExecuteTool(has_rag, fs, tc.name, tc.arguments.val, o).res

\* C13 - Degraded mode: after a failed connect initialize_mcp has returned
\* false without raising and mcp_enabled is false; the catalog of the run
\* that follows holds the local tools only, every dispatch is answered by the
\* local tools and touches no file, and a run in which nothing raised ends
\* with the answer of the completion service after all requests were handled.
DegradedMode ==
    Degraded =>
        /\ ~call.raised
        /\ ~mcp_enabled
        /\ Len(completions) >= 1 => completions[1].tools = RegularToolNames(has_rag)
        /\ \A i \in DOMAIN dispatched : LocalResult(dispatched[i], tool_calls[i])
        /\ fs = InitialFs
        /\ (pc = "done" /\ ~RunFailed) =>
              /\ answer = responses[Len(responses)].content
              /\ Len(dispatched) = Len(tool_calls)

\* C13 witness: after a failed connect a run handled a web search and a
\* request for a file tool, which the local tools refused, and ended with
\* the second response's content.
DegradedWitness ==
    /\ Degraded
    /\ pc = "done"
    /\ answer = <<"answer2">>
    /\ Len(dispatched) = 2
    /\ dispatched[1].res.success
    /\ dispatched[2].name = McpName("read_file")
    /\ dispatched[2].res.error = <<"Unknown tool: ">> \o McpName("read_file")

-----------------------------------------------------------------------------
(* Claims about failures of the remote transport *)

\* The last direct call was of a remote tool through the remote transport,
\* and the transport failed it.
TransportFailure ==
    /\ use.op = "execute_tool"
    /\ platform # "Windows"
    /\ use.enabled
    /\ use.name \in McpToolNames
    /\ "tool_name" \notin use.args.keys
    /\ (use.broken \/ use.outcome = "error")

\* C14 - Transport failures become failed results: a call of a remote tool
\* that meets a closed or lost connection, a closed event loop or an exception
\* of the call returns a result with success = false, raises nothing, and
\* leaves the files alone.
TransportFailuresFail ==
    TransportFailure => (~use.raised /\ ~use.res.success /\ ~use.changed)

\* C14 witness: the call raised on an open session and the result says so.
TransportFailureWitness ==
    /\ TransportFailure
    /\ ~use.broken
    /\ use.name = McpName("write_file")
    /\ use.res.error = <<"Error executing MCP tool ">> \o use.name \o <<": ", "exc">>

-----------------------------------------------------------------------------
(* Claims about the two backing implementations *)

\* The calls of the five file tools on the path p.
CallsOn(p) ==
    { [op |-> "read_file", args |-> MakeArgs({"file_path"}, p, <<>>, <<>>)],
      [op |-> "write_file", args |-> MakeArgs({"file_path", "content"}, p, <<"a">>, <<>>)],
      [op |-> "list_directory", args |-> MakeArgs({"directory_path"}, p, <<>>, <<>>)],
      [op |-> "search_files",
       args |-> MakeArgs({"search_term", "directory_path"}, p, <<>>, <<"s">>)],
      [op |-> "file_info", args |-> MakeArgs({"path"}, p, <<>>, <<>>)] }

\* The ToolResults of the in-process and of the out-of-process implementation
\* agree: the same success flag, and on success the same text up to
\* whitespace around it.
SameResult(direct, remote) ==
    /\ direct.success = remote.success
    /\ direct.success => Strip(direct.result) = remote.result

\* C15 - Backing-implementation equivalence: on the same filesystem, for the
\* same tool and the same arguments, WindowsMCPClient and MCPClient in front
\* of FileSystemMCPServer return ToolResults that agree, and both expose the
\* same five tools.
ImplementationsAgree ==
    /\ \A p \in PathStrings : \A c \in CallsOn(p) :
          SameResult(FileOperation("Windows", fs, c.op, c.args).res,
                     FileOperation("Linux", fs, c.op, c.args).res)
    /\ WrapperGetAvailableTools("Windows", has_rag, NewTransport("Windows"))
         = WrapperGetAvailableTools("Linux", has_rag,
              WrapperInitialize("Linux", NewTransport("Linux"), "open").t)

\* The location a path stands for when relative paths are taken against the
\* configured base directory.
ConfiguredTarget(f, p) ==
    Resolve(f, IF p.abs THEN p ELSE JoinPath(AbsPath(Resolve(f, base_directory)), p))

\* The path of the last operation leaves the configured base directory.
OutsideConfigured(f, p) ==
    ~IsPrefix(Resolve(f, base_directory), ConfiguredTarget(f, p))

\* C16 - Configured base directory is the one enforced: with the transport
\* initialised with base directory B, an operation of either implementation
\* on a path resolving outside B is denied and changes nothing, and a
\* successful write of a relative path puts the content at that path below B,
\* also when B is not the working directory.
ConfiguredBaseEnforced ==
    /\ (last.op \in FileOps /\ OutsideConfigured(fs, last.path))
           => (DeniedResult(last.res) /\ ~last.changed)
    /\ (last.op = "write_file" /\ last.changed)
           => /\ IsFile(fs, ConfiguredTarget(fs, last.path))
              /\ fs[ConfiguredTarget(fs, last.path)].content = last.content

\* The directory an operation of the platform's implementation works on.
Operand(plat, f, p) ==
    IF plat = "Windows" THEN DirectSafePath(f, p) ELSE SafePath(f, p)

\* The files and directories whose content or metadata a successful listing or
\* search of p reads: every entry of the listing, every location of the walk,
\* each with its symbolic links followed.
Accessed(plat, f, op, p) ==
    LET root == Operand(plat, f, p).loc
    IN  IF ~Operand(plat, f, p).ok \/ ~IsDir(f, root) THEN {}
        ELSE IF op = "list_directory"
             THEN { Followed(f, Append(root, n)) : n \in Range(Children(f, root)) }
        ELSE IF op = "search_files"
             THEN { Followed(f, q) : q \in Range(Walk(f, root, Cardinality(DOMAIN f))) }
        ELSE {}

\* The search of p reports a file below it whose content is stored outside
\* the base directory.
ReportsOutsideFile(plat, f, p, res) ==
    LET root == Operand(plat, f, p).loc
    IN  /\ Operand(plat, f, p).ok
        /\ \E q \in Range(Walk(f, root, Cardinality(DOMAIN f))) :
              /\ IsFile(f, Followed(f, q))
              /\ ~IsPrefix(Resolve(f, base_directory), Followed(f, q))
              /\ Contains(res.result,
                          <<"[file] ">> \o JoinParts(SubSeq(q, Len(root) + 1, Len(q)))
                          \o <<":">>)

\* C17 - Effective paths stay inside the sandbox: every entry a listing
\* reports and every file a search visits has its symlink-resolved location
\* in the base directory, and no search result reports the content of a file
\* located outside it.
EffectivePathsInside ==
    /\ \A loc \in Accessed(platform, fs, last.op, last.path) :
           IsPrefix(Resolve(fs, base_directory), loc)
    /\ last.op = "search_files"
           => ~ReportsOutsideFile(platform, fs, last.path, last.res)

\* An exception interrupted the run after its first completion call returned:
\* in the decoding of arguments, in a dispatch, or in the second completion.
Interrupted ==
    /\ responses # <<>>
    /\ ~responses[1].raised
    /\ \/ DecodeFailed
       \/ \E i \in DOMAIN dispatched : dispatched[i].raised
       \/ Len(responses) = 2 /\ responses[2].raised

\* The text of the results the run obtained from its tools.
ObtainedResults ==
    { dispatched[i].res.result \o dispatched[i].res.error :
        i \in { j \in DOMAIN dispatched : ~dispatched[j].raised } }

\* C18 - Abandonment on unrecoverable error: after an exception that
\* interrupts the run past its first completion call the run is over, a
\* raising dispatch is the last dispatch of the batch, a failure inside the
\* batch is followed by no second completion call, and the answer is the
\* fallback apology, which holds no text of a tool result already obtained.
Abandonment ==
    Interrupted =>
        /\ pc = "done"
        /\ \A i \in DOMAIN dispatched : dispatched[i].raised => i = Len(dispatched)
        /\ (DecodeFailed \/ \E i \in DOMAIN dispatched : dispatched[i].raised)
               => /\ Len(completions) = 1
                  /\ Len(dispatched) <= idx
                  /\ idx <= Len(tool_calls)
        /\ answer = Apology
        /\ \A text \in ObtainedResults : text # <<>> => ~Contains(answer, text)

\* C18 witness: the first request of a batch of two returned its result, the
\* second raised, and the run ended with the apology after one completion.
AbandonmentWitness ==
    /\ Len(tool_calls) = 2
    /\ Len(dispatched) = 2
    /\ ~dispatched[1].raised /\ dispatched[1].res.result # <<>>
    /\ dispatched[2].raised
    /\ Len(completions) = 1
    /\ pc = "done"
    /\ answer = Apology

\* The catalog offers a remote tool.
OffersRemote(catalog) == \E i \in DOMAIN catalog : StartsWithMcp(catalog[i])

\* C19 - Catalog regenerated per invocation: over any sequence of connect,
\* loss of the server, disconnect and catalog requests, a catalog built for a
\* run offers remote (mcp_) tools only if the remote transport is available
\* at that moment: the agent is connected, the session and its event loop are
\* open and the server is registered.
CatalogFollowsTransport ==
    (use.op = "get_available_tools" /\ platform # "Windows"
        /\ OffersRemote(use.catalog))
        => (use.enabled /\ ~use.broken)

\* The un-prefixed name of the last call was handled by the local tools: the
\* call gave what AgentTools.execute_tool gives and touched no file.
WentToLocalTools ==
    /\ use.raised = RegularExecuteTool(has_rag, fs, use.name, use.args, use.outcome).raised
    /\ use.res = RegularExecuteTool(has_rag, fs, use.name, use.args, use.outcome).res
    /\ ~use.changed

\* C20 - Namespacing: the names of every catalog are pairwise distinct, the
\* names with the prefix mcp_ are exactly the remote file tools and the local
\* tools carry no prefix; a call changes files only under a prefixed name, and
\* a call of a name without the prefix is answered by the local tools.
Namespacing ==
    /\ \A i, j \in DOMAIN use.catalog : use.catalog[i] = use.catalog[j] => i = j
    /\ \A i \in DOMAIN use.catalog :
           /\ StartsWithMcp(use.catalog[i]) <=> use.catalog[i] \in McpToolNames
           /\ ~StartsWithMcp(use.catalog[i])
                  <=> use.catalog[i] \in Range(RegularToolNames(has_rag))
    /\ (use.op = "execute_tool" /\ use.changed) => StartsWithMcp(use.name)
    /\ (use.op = "execute_tool" /\ ~StartsWithMcp(use.name)) => WentToLocalTools

\* The result is a failed one whose error is the message of the given kind
\* for the path.
FailedWith(res, message, p) ==
    /\ ~res.success
    /\ res.error \in { <<message>> \o PathText(p),
                      <<"Error: " \o message>> \o PathText(p) }

\* C23 - Read outcomes: a read of a path inside the sandbox fails with
\* not-found when nothing is there, with not-a-file when a directory is there,
\* with the encoding error when the content cannot be decoded, each as a
\* failed result; otherwise it succeeds and returns the path and the file's
\* content; the filesystem is never changed.
ReadOutcomes ==
    (last.op = "read_file" /\ ~Outside(fs, last.path)) =>
        /\ ~last.changed
        /\ IF ~Exists(fs, Resolve(fs, last.path))
           THEN FailedWith(last.res, "File not found: ", last.path)
           ELSE IF ~IsFile(fs, Resolve(fs, last.path))
           THEN FailedWith(last.res, "Path is not a file: ", last.path)
           ELSE IF ~Decodable(fs[Resolve(fs, last.path)].content)
           THEN FailedWith(last.res,
                           "Unable to read file (binary or encoding issue): ",
                           last.path)
           ELSE /\ last.res.success
                /\ ReturnedContent(last.path, last.res.result)
                     = ReadText(fs, Resolve(fs, last.path))

\* The write of the last operation reported success.
WriteSucceeded ==
    /\ last.op = "write_file"
    /\ last.res.success
    /\ Len(last.res.result) >= 2
    /\ Head(last.res.result) = "Successfully wrote "

\* C24 - Write semantics: a write to a path inside the sandbox fails only
\* where a directory is at the path or a file is in the way of its parent;
\* otherwise the intermediate directories exist afterwards, the file holds
\* the content and nothing of what it held before, and the reported count is
\* the number of bytes the file now has, also with multi-byte characters.
WriteSemantics ==
    (last.op = "write_file" /\ ~Outside(fs, last.path)) =>
        /\ ~WriteSucceeded
               => \/ IsDir(fs, Resolve(fs, last.path))
                  \/ ~CanMakeDirs(fs, Parent(Resolve(fs, last.path)))
        /\ WriteSucceeded
               => /\ \A n \in 0..(Len(Resolve(fs, last.path)) - 1) :
                         IsDir(fs, SubSeq(Resolve(fs, last.path), 1, n))
                  /\ IsFile(fs, Resolve(fs, last.path))
                  /\ UniversalNewlines(fs[Resolve(fs, last.path)].content)
                         = UniversalNewlines(last.content)
                  /\ last.res.result[2]
                         = NumText(ByteCount(fs[Resolve(fs, last.path)].content))

\* The files stored below root whose names end in ext.
FilesUnder(f, root, ext) ==
    { q \in DOMAIN f : /\ IsPrefix(root, q) /\ q # root /\ f[q].kind = "file"
                       /\ (ext = "" \/ ext \in NameSuffixes(q[Len(q)])) }

\* The file decodes and its text holds the term, case ignored.
HoldsTerm(f, q, term) ==
    Decodable(f[q].content) /\ Contains(Lower(ReadText(f, q)), Lower(term))

\* The numbers of the lines of the file that hold the term, and the first
\* three of them.
MatchingNumbers(f, q, term) ==
    { i \in DOMAIN SplitLines(ReadText(f, q), <<>>) :
        Contains(Lower(SplitLines(ReadText(f, q), <<>>)[i]), Lower(term)) }

FirstThree(nums) == { i \in nums : Cardinality({ j \in nums : j < i }) < 3 }

\* The lines numbered nums, in increasing order, as the report words them;
\* trimmed says whether the text of a line is given without its surrounding
\* whitespace.
RECURSIVE ReportedLines(_, _, _, _)
ReportedLines(lines, nums, from, trimmed) ==
    IF from > Len(lines) THEN <<>>
    ELSE (IF from \in nums
          THEN <<LF, "  Line ", NumText(from), ": ">>
               \o (IF trimmed THEN Strip(lines[from]) ELSE lines[from])
          ELSE <<>>)
         \o ReportedLines(lines, nums, from + 1, trimmed)

\* The block the claim describes for one file: its path relative to root, its
\* first three matching lines, the count of the further ones.
ExpectedBlock(f, root, q, term, trimmed) ==
    <<"[file] ">> \o JoinParts(SubSeq(q, Len(root) + 1, Len(q))) \o <<":">>
    \o ReportedLines(SplitLines(ReadText(f, q), <<>>),
                     FirstThree(MatchingNumbers(f, q, term)), 1, trimmed)
    \o (IF Cardinality(MatchingNumbers(f, q, term)) > 3
        THEN <<LF, "  ... and ",
               NumText(Cardinality(MatchingNumbers(f, q, term)) - 3),
               " more matches">>
        ELSE <<>>)

\* The result of the last search has the shape the claim describes.
ShapeOfSearch(trimmed) ==
    (/\ last.op = "search_files"
     /\ ~Outside(fs, last.path)
     /\ IsDir(fs, Resolve(fs, last.path)))
        => /\ last.res.success
           /\ \A q \in FilesUnder(fs, Resolve(fs, last.path), last.ext) :
                 IF HoldsTerm(fs, q, last.content)
                 THEN Contains(last.res.result \o <<LF, LF>>,
                               ExpectedBlock(fs, Resolve(fs, last.path), q,
                                             last.content, trimmed)
                               \o <<LF, LF>>)
                 ELSE ~Contains(last.res.result,
                                <<"[file] ">>
                                \o JoinParts(SubSeq(q, Len(Resolve(fs, last.path)) + 1,
                                                    Len(q)))
                                \o <<":">>)
           /\ \A q \in FilesUnder(fs, Resolve(fs, last.path), "")
                        \ FilesUnder(fs, Resolve(fs, last.path), last.ext) :
                 ~Contains(last.res.result,
                           <<"[file] ">>
                           \o JoinParts(SubSeq(q, Len(Resolve(fs, last.path)) + 1, Len(q)))
                           \o <<":">>)

\* C25 - Search result shape: a search reports exactly the files under the
\* directory (with the extension, when one is given) whose decoded content
\* holds the term, case ignored; for each it gives the relative path, the
\* first three matching lines in order with their 1-based numbers and their
\* text, and exactly when more than three lines match, the count of the
\* others; an undecodable file is skipped and the search succeeds.
SearchResultShape == ShapeOfSearch(FALSE)

\* C25, as the code has it: the same shape, the text of each reported line
\* given without its leading and trailing whitespace.
SearchResultShapeTrimmed == ShapeOfSearch(TRUE)

\* C25 witness: a search for "a" found the file of six lines below the
\* directory, reported line 2 without its leading blank, and counted two
\* matches beyond the first three.
SearchShapeWitness ==
    /\ last.op = "search_files"
    /\ last.content = <<"a">>
    /\ last.res.success
    /\ Contains(last.res.result, <<"[file] ", "d", "/", "fn", ":">>)
    /\ Contains(last.res.result, <<"  Line ", "2", ": ", "A", LF>>)
    /\ Contains(last.res.result, <<"  ... and ", "2", " more matches">>)

\* C26 - Connection outlives connect: when the connect of initialize_mcp has
\* just returned true, the client session recorded in connected_servers is
\* open, so that a later call of a discovered tool can go over it.
ConnectionOutlivesConnect ==
    (platform # "Windows" /\ call.op = "initialize_mcp" /\ call.ret)
        => (/\ "filesystem" \in transport.connected_servers
            /\ transport.session = "open")

\* C27 - No leak on failed connect: once the agent's cleanup has been called
\* after connect attempts that all failed, one of them with its server
\* subprocess started, no server subprocess started by them is still running and no event loop created by the wrapper's
\* initialize is still open.
NoLeakOnFailedConnect ==
    (/\ platform # "Windows"
     /\ call.op = "cleanup"
     /\ call.attempted /\ ~call.connected /\ call.spawned)
        => /\ transport.orphan_procs = 0
           /\ transport.process # "running"
           /\ transport.orphan_loops = 0
           /\ transport.loop # "open"

\* The last call on the agent came right after a cleanup of an agent whose
\* transport had been connected.
AfterDisconnect == use.op # "none" /\ use.after = "cleanup" /\ use.connected

\* C29 - Use after disconnect is safe: a get_available_tools or execute_tool
\* that follows cleanup() on an agent whose transport was connected raises
\* nothing, its catalog offers no remote (mcp_) tool, and the dispatch of an
\* mcp_ tool returns a failed result and changes no file.
UseAfterDisconnect ==
    AfterDisconnect =>
        /\ ~use.raised
        /\ ~OffersRemote(use.catalog)
        /\ (use.op = "execute_tool" /\ StartsWithMcp(use.name))
               => (~use.res.success /\ ~use.changed)

\* The flag is set only after an initialize that returned true, and a
\* catalog with mcp_ tools was returned only with the flag set.
EnabledFlagState ==
    /\ mcp_enabled => call.connected
    /\ (use.op # "none" /\ OffersRemote(use.catalog)) => use.enabled

\* C30 - Remote-enabled flag invariant: mcp_enabled is true only if some call
\* of the wrapper's initialize returned true, once true no step makes it
\* false, and a catalog returned by the agent's get_available_tools holds
\* mcp_ tools only while mcp_enabled is true.
EnabledFlagInvariant ==
    /\ []EnabledFlagState
    /\ [][mcp_enabled => mcp_enabled']_vars

\* C30 witness: the flag is set, a cleanup has been called since, and the
\* catalog returned after it still came from the wrapper.
EnabledFlagWitness ==
    /\ mcp_enabled
    /\ call.op = "cleanup"
    /\ use.op = "get_available_tools"
    /\ use.after = "cleanup"
    /\ use.enabled

\* C21 - Shared transport is not used concurrently: at no time are two
\* threads' dispatches inside the execute_tool of the one wrapper, and so on
\* its event loop, at once.
NoConcurrentUse == Cardinality(web.within) <= 1

\* C28 - Single initialisation under concurrency: whatever the interleaving
\* of the requests, agent.initialize_mcp is called at most once, and no
\* server subprocess or event loop of an earlier call is left behind.
SingleInitialisation ==
    /\ web.inits <= 1
    /\ transport.orphan_loops = 0
    /\ DroppedProcs(transport) <= 1

\* The text of the user message of thread t's request.
QuestionOf(t) == [text |-> <<"question", t>>]

\* The messages of thread t's run are its own: the system message, its own
\* user message, then the assistant's message and the tool messages of its
\* own requests.
OwnMessages(t) ==
    \A i \in DOMAIN web.msgs[t] :
        /\ (i = 1) <=> (web.msgs[t][i].role = "system")
        /\ (i = 2) <=> (web.msgs[t][i].role = "user")
        /\ web.msgs[t][i].role = "user" => web.msgs[t][i].content = QuestionOf(t)
        /\ web.msgs[t][i].role = "assistant" => i = 3
        /\ web.msgs[t][i].role = "tool"
               => (i > 3 /\ web.msgs[t][i].tool_call_id[1] = t)

\* C22 - Conversation is append-only and private to a run: every step leaves
\* the messages a run already has as they were and in place, adding at the
\* end only, and the messages of a run are those of that run alone, whether
\* the runs on the agent follow each other or overlap.
ConversationPrivate ==
    /\ [](\A t \in Threads : OwnMessages(t))
    /\ [][\A t \in Threads : IsPrefix(web.msgs[t], web.msgs'[t])]_vars

\* C22 witness: both runs hold their tool message while the other run's
\* messages exist beside them.
ConversationWitness ==
    \A t \in Threads :
        /\ Len(web.msgs[t]) = 4
        /\ web.msgs[t][4].role = "tool"
        /\ web.msgs[t][2].content = QuestionOf(t)

====
